---- MODULE Spec2Model ----
(***************************************************************************)
(* Verification model of the one-time-password grabber's extraction core   *)
(* (the scored-ranking parser).  Texts are sequences of one-character      *)
(* strings over ASCII; regular expressions are syntax trees matched by a   *)
(* backtracking matcher that yields its matches in ECMAScript priority     *)
(* order (leftmost alternative first, greedy quantifiers longest first).   *)
(***************************************************************************)
EXTENDS Integers, Sequences, FiniteSets, TLC

\* ------------------------------------------------------------------------
\* Characters
\* ------------------------------------------------------------------------
LowerSeq == <<"a","b","c","d","e","f","g","h","i","j","k","l","m",
              "n","o","p","q","r","s","t","u","v","w","x","y","z">>
UpperSeq == <<"A","B","C","D","E","F","G","H","I","J","K","L","M",
              "N","O","P","Q","R","S","T","U","V","W","X","Y","Z">>
Lowers == {LowerSeq[i] : i \in DOMAIN LowerSeq}
Uppers == {UpperSeq[i] : i \in DOMAIN UpperSeq}
Digits == {"0","1","2","3","4","5","6","7","8","9"}
DigitSeq == <<"0","1","2","3","4","5","6","7","8","9">>
\* \s of the regular expressions, restricted to ASCII
WhiteSpace == {" ", "\t", "\n", "\r", "\f"}
\* \w of the regular expressions
WordChars == Lowers \cup Uppers \cup Digits \cup {"_"}

LowerOf == [c \in Uppers |-> LowerSeq[CHOOSE i \in DOMAIN UpperSeq : UpperSeq[i] = c]]
UpperOf == [c \in Lowers |-> UpperSeq[CHOOSE i \in DOMAIN LowerSeq : LowerSeq[i] = c]]
DigitVal == [c \in Digits |-> (CHOOSE i \in DOMAIN DigitSeq : DigitSeq[i] = c) - 1]

\* String.prototype.toLowerCase / toUpperCase
toLowerCase(s) == [i \in 1..Len(s) |-> IF s[i] \in Uppers THEN LowerOf[s[i]] ELSE s[i]]
toUpperCase(s) == [i \in 1..Len(s) |-> IF s[i] \in Lowers THEN UpperOf[s[i]] ELSE s[i]]

\* String.prototype.slice(from, to) with 0-based, already clamped indices
Slice(s, from, to) == IF to <= from THEN <<>> ELSE SubSeq(s, from + 1, to)

\* does needle occur in hay at 0-based offset i
OccursAt(hay, needle, i) ==
    /\ i >= 0
    /\ i + Len(needle) <= Len(hay)
    /\ \A k \in 1..Len(needle) : hay[i + k] = needle[k]

\* String.prototype.includes
Includes(hay, needle) ==
    \E i \in 0..(Len(hay) - Len(needle)) : \A k \in DOMAIN needle : hay[i + k] = needle[k]

\* String.prototype.indexOf(needle, from); -1 when there is none
IndexOf(hay, needle, from) ==
    LET hits == {i \in from..(Len(hay) - Len(needle)) : OccursAt(hay, needle, i)}
    IN  IF hits = {} THEN -1 ELSE CHOOSE i \in hits : \A j \in hits : i <= j

\* ------------------------------------------------------------------------
\* Regular expressions: syntax trees
\* ------------------------------------------------------------------------
Node(t, s, rs, min, max) == [t |-> t, s |-> s, rs |-> rs, min |-> min, max |-> max]
Cls(S)       == Node("cls", S, <<>>, 0, 0)          \* one character of S
Cat(rs)      == Node("cat", {}, rs, 0, 0)           \* r1 r2 ...
Alt(rs)      == Node("alt", {}, rs, 0, 0)           \* r1|r2|...
Rep(r, m, n) == Node("rep", {}, <<r>>, m, n)        \* r{m,n}, greedy
Many(r, m)   == Node("rep", {}, <<r>>, m, -1)       \* r{m,}, greedy
Grp(r)       == Node("grp", {}, <<r>>, 0, 0)        \* capturing group 1
WB           == Node("wb", {}, <<>>, 0, 0)          \* \b
Bos          == Node("bos", {}, <<>>, 0, 0)         \* ^
Eos          == Node("eos", {}, <<>>, 0, 0)         \* $
Opt(r)       == Rep(r, 0, 1)
Star(r)      == Many(r, 0)
Plus(r)      == Many(r, 1)
Lit(str)     == Cat([i \in 1..Len(str) |-> Cls({str[i]})])

\* the i flag: every character class is closed under case
FoldCase(S) == S \cup {LowerOf[c] : c \in S \cap Uppers} \cup {UpperOf[c] : c \in S \cap Lowers}
RECURSIVE IgnoreCase(_)
IgnoreCase(re) ==
    Node(re.t, FoldCase(re.s), [k \in 1..Len(re.rs) |-> IgnoreCase(re.rs[k])], re.min, re.max)

\* ------------------------------------------------------------------------
\* Regular expressions: backtracking matcher
\* A match state is <<end, cap>>: end is the 0-based offset reached, cap is
\* <<start, end>> of capture group 1, or <<-1, -1>> while it did not take part.
\* Match(re, text, i, cap) lists the match states in priority order.
\* ------------------------------------------------------------------------
NoCap == <<-1, -1>>

IsWordAt(text, i) == i >= 1 /\ i <= Len(text) /\ text[i] \in WordChars

RECURSIVE Match(_,_,_,_), MatchCat(_,_,_,_,_), MatchCatRest(_,_,_,_,_),
          MatchAlt(_,_,_,_,_), MatchRep(_,_,_,_,_), MatchRepRest(_,_,_,_,_)

Match(re, text, i, cap) ==
    CASE re.t = "cls" ->
            IF i < Len(text) /\ text[i + 1] \in re.s THEN << <<i + 1, cap>> >> ELSE <<>>
      [] re.t = "wb"  ->
            IF IsWordAt(text, i) # IsWordAt(text, i + 1) THEN << <<i, cap>> >> ELSE <<>>
      [] re.t = "bos" -> IF i = 0 THEN << <<i, cap>> >> ELSE <<>>
      [] re.t = "eos" -> IF i = Len(text) THEN << <<i, cap>> >> ELSE <<>>
      [] re.t = "cat" -> MatchCat(re.rs, 1, text, i, cap)
      [] re.t = "alt" -> MatchAlt(re.rs, 1, text, i, cap)
      [] re.t = "rep" -> MatchRep(re, text, i, cap, 0)
      [] re.t = "grp" ->
            LET inner == Match(re.rs[1], text, i, cap)
            IN  [k \in 1..Len(inner) |-> <<inner[k][1], <<i, inner[k][1]>> >>]

MatchCat(rs, k, text, i, cap) ==
    IF k > Len(rs) THEN << <<i, cap>> >>
    ELSE MatchCatRest(rs, k, text, Match(rs[k], text, i, cap), 1)

MatchCatRest(rs, k, text, heads, n) ==
    IF n > Len(heads) THEN <<>>
    ELSE MatchCat(rs, k + 1, text, heads[n][1], heads[n][2])
         \o MatchCatRest(rs, k, text, heads, n + 1)

MatchAlt(rs, k, text, i, cap) ==
    IF k > Len(rs) THEN <<>>
    ELSE Match(rs[k], text, i, cap) \o MatchAlt(rs, k + 1, text, i, cap)

\* greedy: one more iteration is tried before stopping (every repeated
\* expression of the program consumes at least one character)
MatchRep(re, text, i, cap, count) ==
    LET more == IF re.max = -1 \/ count < re.max
                THEN MatchRepRest(re, text, Match(re.rs[1], text, i, cap), count, 1)
                ELSE <<>>
        stop == IF count >= re.min THEN << <<i, cap>> >> ELSE <<>>
    IN  more \o stop

MatchRepRest(re, text, heads, count, n) ==
    IF n > Len(heads) THEN <<>>
    ELSE MatchRep(re, text, heads[n][1], heads[n][2], count + 1)
         \o MatchRepRest(re, text, heads, count, n + 1)

\* Whether re can match without consuming a character, and the characters a
\* non-empty match of re can begin with: a start offset whose character is
\* outside First(re) has no match, so the scan below skips it unmatched.
RECURSIVE Nullable(_)
Nullable(re) ==
    CASE re.t = "cls" -> FALSE
      [] re.t \in {"wb", "bos", "eos"} -> TRUE
      [] re.t = "cat" -> \A k \in DOMAIN re.rs : Nullable(re.rs[k])
      [] re.t = "alt" -> \E k \in DOMAIN re.rs : Nullable(re.rs[k])
      [] re.t = "rep" -> re.min = 0 \/ Nullable(re.rs[1])
      [] re.t = "grp" -> Nullable(re.rs[1])

RECURSIVE First(_)
First(re) ==
    CASE re.t = "cls" -> re.s
      [] re.t \in {"wb", "bos", "eos"} -> {}
      [] re.t = "cat" ->
            UNION {First(re.rs[k]) : k \in {j \in DOMAIN re.rs :
                                             \A h \in 1..(j - 1) : Nullable(re.rs[h])}}
      [] re.t = "alt" -> UNION {First(re.rs[k]) : k \in DOMAIN re.rs}
      [] re.t = "rep" -> First(re.rs[1])
      [] re.t = "grp" -> First(re.rs[1])

\* RegExp exec from lastIndex: the leftmost start at or after `from` with a
\* match, and the first match there in priority order.
\* Result <<start, end, cap>>, or <<>> when there is no match.
\* The least element of a set of offsets, -1 for the empty set
Least(S) == IF S = {} THEN -1 ELSE CHOOSE i \in S : \A j \in S : i <= j

\* the match states of re at offset i as a result
ResultAt(i, ms) == <<i, ms[1][1], ms[1][2]>>

StartAt(re, text, i) == IF i < 0 THEN <<>> ELSE ResultAt(i, Match(re, text, i, NoCap))

ExecFrom(re, nullable, first, text, from) ==
    StartAt(re, text,
            Least({i \in from..Len(text) :
                      /\ nullable \/ (i < Len(text) /\ text[i + 1] \in first)
                      /\ Match(re, text, i, NoCap) # <<>>}))

\* a pattern object: the expression with its scan data, computed once
Compile(re) == [re |-> re, nullable |-> Nullable(re), first |-> First(re)]

Exec(pattern, text, from) ==
    ExecFrom(pattern.re, pattern.nullable, pattern.first, text, from)

\* RegExp.prototype.test
Test(pattern, text) == Exec(pattern, text, 0) # <<>>

\* String.prototype.match with a non-global pattern: <<whole match, group 1>>,
\* or <<>> for null.  Every pattern of the program has at most one capturing
\* group, and that group takes part in every match.
MatchFirst(pattern, text) ==
    LET m == Exec(pattern, text, 0)
    IN  IF m = <<>> THEN <<>>
        ELSE IF m[3] = NoCap THEN << Slice(text, m[1], m[2]) >>
        ELSE << Slice(text, m[1], m[2]), Slice(text, m[3][1], m[3][2]) >>

\* String.prototype.match with a global pattern: the whole-match strings of
\* all non-overlapping matches, left to right (<<>> for null)
RECURSIVE MatchAllFrom(_,_,_)
MatchAllFrom(pattern, text, from) ==
    LET m == Exec(pattern, text, from)
    IN  IF m = <<>> THEN <<>>
        ELSE << Slice(text, m[1], m[2]) >>
             \o MatchAllFrom(pattern, text, IF m[2] = m[1] THEN m[2] + 1 ELSE m[2])
MatchAll(pattern, text) == MatchAllFrom(pattern, text, 0)

\* ------------------------------------------------------------------------
\* Keyword tables
\* ------------------------------------------------------------------------
OTP_KEYWORDS == <<
    <<"v","e","r","i","f","i","c","a","t","i","o","n"," ","c","o","d","e">>,
    <<"v","e","r","i","f","y"," ","c","o","d","e">>,
    <<"v","e","r","i","f","i","c","a","t","i","o","n">>,
    <<"c","o","d","e"," ","i","s">>,
    <<"y","o","u","r"," ","c","o","d","e">>,
    <<"s","e","c","u","r","i","t","y"," ","c","o","d","e">>,
    <<"o","n","e","-","t","i","m","e">>,
    <<"o","n","e"," ","t","i","m","e">>,
    <<"o","t","p">>,
    <<"2","f","a">>,
    <<"t","w","o","-","f","a","c","t","o","r">>,
    <<"t","w","o"," ","f","a","c","t","o","r">>,
    <<"a","u","t","h","e","n","t","i","c","a","t","i","o","n"," ","c","o","d","e">>,
    <<"l","o","g","i","n"," ","c","o","d","e">>,
    <<"s","i","g","n","-","i","n"," ","c","o","d","e">>,
    <<"s","i","g","n","i","n"," ","c","o","d","e">>,
    <<"c","o","n","f","i","r","m">>,
    <<"c","o","n","f","i","r","m","a","t","i","o","n"," ","c","o","d","e">>,
    <<"p","a","s","s","c","o","d","e">>,
    <<"p","i","n"," ","c","o","d","e">>,
    <<"a","c","c","e","s","s"," ","c","o","d","e">> >>

STRONG_CONTEXT_KEYWORDS == <<
    <<"v","e","r","i","f","i","c","a","t","i","o","n"," ","c","o","d","e">>,
    <<"y","o","u","r"," ","c","o","d","e">>,
    <<"c","o","d","e"," ","i","s">>,
    <<"o","t","p">>,
    <<"o","n","e","-","t","i","m","e">>,
    <<"o","n","e"," ","t","i","m","e">>,
    <<"p","a","s","s","c","o","d","e">>,
    <<"s","e","c","u","r","i","t","y"," ","c","o","d","e">>,
    <<"a","u","t","h","e","n","t","i","c","a","t","i","o","n"," ","c","o","d","e">>,
    <<"l","o","g","i","n"," ","c","o","d","e">>,
    <<"s","i","g","n","-","i","n"," ","c","o","d","e">>,
    <<"c","o","n","f","i","r","m","a","t","i","o","n"," ","c","o","d","e">>,
    <<"p","i","n"," ","c","o","d","e">>,
    <<"a","c","c","e","s","s"," ","c","o","d","e">> >>

WEAK_CONTEXT_KEYWORDS == <<
    <<"c","o","d","e">>,
    <<"e","n","t","e","r">>,
    <<"u","s","e">>,
    <<"v","e","r","i","f","y">>,
    <<"s","u","b","m","i","t">>,
    <<"i","n","p","u","t">>,
    <<"t","y","p","e">>,
    <<"i","s",":">> >>

\* ------------------------------------------------------------------------
\* Pattern tables
\* ------------------------------------------------------------------------
Dg == Cls(Digits)
Ws == Cls(WhiteSpace)
Sep == Cls({"-", ".", " ", "\t", "\n", "\r", "\f"})          \* [-.\s]
LabelWord == Alt(<<Lit(<<"c","o","d","e">>), Lit(<<"o","t","p">>), Lit(<<"p","i","n">>), Lit(<<"p","a","s","s","c","o","d","e">>)>>)

\* index k + 1 here is pattern index k of the program
CodeExpressions == <<
    \* /(?:code|otp|pin|passcode)\s*(?:is|:)\s*[:\s]*([A-Z0-9]{4,8})/i
    IgnoreCase(Cat(<<LabelWord, Star(Ws), Alt(<<Lit(<<"i","s">>), Lit(<<":">>)>>), Star(Ws),
                     Star(Cls(WhiteSpace \cup {":"})),
                     Grp(Rep(Cls(Uppers \cup Digits), 4, 8))>>)),
    \* /\b(\d{6})\b/
    Cat(<<WB, Grp(Rep(Dg, 6, 6)), WB>>),
    \* /\b(\d{4})\b/
    Cat(<<WB, Grp(Rep(Dg, 4, 4)), WB>>),
    \* /\b(\d{8})\b/
    Cat(<<WB, Grp(Rep(Dg, 8, 8)), WB>>),
    \* /\b(\d{5})\b/
    Cat(<<WB, Grp(Rep(Dg, 5, 5)), WB>>),
    \* /\b(\d{7})\b/
    Cat(<<WB, Grp(Rep(Dg, 7, 7)), WB>>),
    \* /\b([A-Z0-9]{6,8})\b/i
    IgnoreCase(Cat(<<WB, Grp(Rep(Cls(Uppers \cup Digits), 6, 8)), WB>>)),
    \* /\b(\d{3}-\d{3})\b/
    Cat(<<WB, Grp(Cat(<<Rep(Dg, 3, 3), Lit(<<"-">>), Rep(Dg, 3, 3)>>)), WB>>),
    \* /\b(\d{3}\s\d{3})\b/
    Cat(<<WB, Grp(Cat(<<Rep(Dg, 3, 3), Ws, Rep(Dg, 3, 3)>>)), WB>>) >>

CODE_PATTERNS == [k \in DOMAIN CodeExpressions |-> Compile(CodeExpressions[k])]

ExcludeExpressions == <<
    \* phone numbers: /\+?\d{1,3}[-.\s]?\(?\d{3}\)?[-.\s]?\d{3}[-.\s]?\d{4}/
    Cat(<<Opt(Lit(<<"+">>)), Rep(Dg, 1, 3), Opt(Sep), Opt(Lit(<<"(">>)), Rep(Dg, 3, 3),
          Opt(Lit(<<")">>)), Opt(Sep), Rep(Dg, 3, 3), Opt(Sep), Rep(Dg, 4, 4)>>),
    \* dates: /\d{1,2}[\/\-]\d{1,2}[\/\-]\d{2,4}/
    Cat(<<Rep(Dg, 1, 2), Cls({"/", "-"}), Rep(Dg, 1, 2), Cls({"/", "-"}), Rep(Dg, 2, 4)>>),
    \* times: /\d{1,2}:\d{2}(?::\d{2})?(?:\s*[AaPp][Mm])?/
    Cat(<<Rep(Dg, 1, 2), Lit(<<":">>), Rep(Dg, 2, 2),
          Opt(Cat(<<Lit(<<":">>), Rep(Dg, 2, 2)>>)),
          Opt(Cat(<<Star(Ws), Cls({"A", "a", "P", "p"}), Cls({"M", "m"})>>))>>),
    \* years: /\b(19|20)\d{2}\b/
    Cat(<<WB, Grp(Alt(<<Lit(<<"1","9">>), Lit(<<"2","0">>)>>)), Rep(Dg, 2, 2), WB>>),
    \* order/reference numbers: /(?:order|ref|reference|tracking|invoice|po|#)\s*[:#]?\s*\d+/i
    IgnoreCase(Cat(<<Alt(<<Lit(<<"o","r","d","e","r">>), Lit(<<"r","e","f">>), Lit(<<"r","e","f","e","r","e","n","c","e">>), Lit(<<"t","r","a","c","k","i","n","g">>), Lit(<<"i","n","v","o","i","c","e">>), Lit(<<"p","o">>), Lit(<<"#">>)>>),
                     Star(Ws), Opt(Cls({":", "#"})), Star(Ws), Plus(Dg)>>)),
    \* postal codes: /\b\d{5}(?:-\d{4})?\b/
    Cat(<<WB, Rep(Dg, 5, 5), Opt(Cat(<<Lit(<<"-">>), Rep(Dg, 4, 4)>>)), WB>>),
    \* currency amounts: /\$\d+(?:\.\d{2})?/
    Cat(<<Lit(<<"$">>), Plus(Dg), Opt(Cat(<<Lit(<<".">>), Rep(Dg, 2, 2)>>))>>),
    \* 9+ digit strings: /\b\d{9,}\b/
    Cat(<<WB, Many(Dg, 9), WB>>),
    \* CSS values: /\b\d+(?:px|em|rem|pt|vh|vw|%)\b/i
    IgnoreCase(Cat(<<WB, Plus(Dg), Alt(<<Lit(<<"p","x">>), Lit(<<"e","m">>), Lit(<<"r","e","m">>), Lit(<<"p","t">>), Lit(<<"v","h">>), Lit(<<"v","w">>), Lit(<<"%">>)>>), WB>>)),
    \* hex colour codes: /#[0-9a-fA-F]{3,8}\b/
    Cat(<<Lit(<<"#">>),
          Rep(Cls(Digits \cup {"a","b","c","d","e","f","A","B","C","D","E","F"}), 3, 8), WB>>) >>

EXCLUDE_PATTERNS == [k \in DOMAIN ExcludeExpressions |-> Compile(ExcludeExpressions[k])]

\* new RegExp(pattern, 'gi'): the i flag added to the pattern
GlobalPatterns == [k \in DOMAIN CodeExpressions |-> Compile(IgnoreCase(CodeExpressions[k]))]
GlobalPattern(k) == GlobalPatterns[k]

\* ------------------------------------------------------------------------
\* The parser
\* ------------------------------------------------------------------------
\* the gate reading the weak context table instead of the OTP table
containsOtpKeywordsWeakTable(text) ==
    LET lowerText == toLowerCase(text)
    IN  \E k \in DOMAIN WEAK_CONTEXT_KEYWORDS : Includes(lowerText, WEAK_CONTEXT_KEYWORDS[k])

containsOtpKeywords(text) ==
    LET lowerText == toLowerCase(text)
    IN  \E k \in DOMAIN OTP_KEYWORDS : Includes(lowerText, OTP_KEYWORDS[k])

ContextWindow == 80

HasKeyword(window, keywords) == \E k \in DOMAIN keywords : Includes(window, keywords[k])

\* the while loop of scoreContext, from cursor searchFrom with bestScore so far
RECURSIVE ScoreContextFrom(_,_,_,_)
ScoreContextFrom(lowerText, lowerCode, searchFrom, bestScore) ==
    IF ~(searchFrom < Len(lowerText)) THEN bestScore
    ELSE LET codeIndex == IndexOf(lowerText, lowerCode, searchFrom)
         IN  IF codeIndex = -1 THEN bestScore
             ELSE LET from == IF codeIndex - ContextWindow > 0
                              THEN codeIndex - ContextWindow ELSE 0
                      contextBefore == Slice(lowerText, from, codeIndex)
                  IN  IF HasKeyword(contextBefore, STRONG_CONTEXT_KEYWORDS) THEN 2
                      ELSE ScoreContextFrom(lowerText, lowerCode,
                               codeIndex + Len(lowerCode),
                               IF HasKeyword(contextBefore, WEAK_CONTEXT_KEYWORDS)
                               THEN (IF bestScore > 1 THEN bestScore ELSE 1)
                               ELSE bestScore)

\* the scorer looking at the first occurrence only
scoreContextFirstOccurrence(text, code) ==
    LET lowerText == toLowerCase(text)
        codeIndex == IndexOf(lowerText, toLowerCase(code), 0)
        from      == IF codeIndex - ContextWindow > 0 THEN codeIndex - ContextWindow ELSE 0
        contextBefore == Slice(lowerText, from, codeIndex)
    IN  IF codeIndex = -1 THEN 0
        ELSE IF HasKeyword(contextBefore, STRONG_CONTEXT_KEYWORDS) THEN 2
        ELSE IF HasKeyword(contextBefore, WEAK_CONTEXT_KEYWORDS) THEN 1
        ELSE 0

scoreContext(text, code) == ScoreContextFrom(toLowerCase(text), toLowerCase(code), 0, 0)

\* the run test without its descending half
isSequentialAscending(str) ==
    IF ~(Len(str) >= 1 /\ \A i \in 1..Len(str) : str[i] \in Digits) THEN FALSE
    ELSE \A i \in 2..Len(str) : DigitVal[str[i]] = DigitVal[str[i - 1]] + 1

isSequential(str) ==
    IF ~(Len(str) >= 1 /\ \A i \in 1..Len(str) : str[i] \in Digits) THEN FALSE
    ELSE LET ascending  == \A i \in 2..Len(str) : DigitVal[str[i]] = DigitVal[str[i - 1]] + 1
             descending == \A i \in 2..Len(str) : DigitVal[str[i]] = DigitVal[str[i - 1]] - 1
         IN  ascending \/ descending

\* /^(\d)\1+$/ : a digit followed by one or more copies of itself
AllSameDigits(code) ==
    /\ Len(code) >= 2
    /\ code[1] \in Digits
    /\ \A i \in 2..Len(code) : code[i] = code[1]

\* text.match(pattern) for every exclusion pattern: with the non-global
\* patterns, the first match of each and that match's capture group.  The
\* matches depend on the text alone, so one evaluation serves every candidate
\* of an email.
ExclusionMatches(text) ==
    [k \in DOMAIN EXCLUDE_PATTERNS |-> MatchFirst(EXCLUDE_PATTERNS[k], text)]

\* isExcluded with the results of text.match(pattern) given
IsExcludedIn(matchesOf, code) ==
    \/ \E k \in DOMAIN matchesOf :
          matchesOf[k] # <<>> /\ \E n \in DOMAIN matchesOf[k] : Includes(matchesOf[k][n], code)
    \/ AllSameDigits(code)
    \/ isSequential(code)

isExcluded(text, code) == IsExcludedIn(ExclusionMatches(text), code)

\* code.replace(/[-\s]/g, '')
RECURSIVE StripSeparators(_)
StripSeparators(code) ==
    IF code = <<>> THEN <<>>
    ELSE IF Head(code) \in WhiteSpace \cup {"-"} THEN StripSeparators(Tail(code))
    ELSE <<Head(code)>> \o StripSeparators(Tail(code))

\* the alphabetic test with the length of the alphanumeric pattern: /^[A-Z]{6,8}$/
IsAlphabeticLong(cleanCode) ==
    Len(cleanCode) \in 6..8 /\ \A i \in 1..Len(cleanCode) : cleanCode[i] \in Uppers

\* /^[A-Z]+$/
IsAlphabetic(cleanCode) == Len(cleanCode) >= 1 /\ \A i \in 1..Len(cleanCode) : cleanCode[i] \in Uppers

\* /^\d{6}$/
IsSixDigits(cleanCode) == Len(cleanCode) = 6 /\ \A i \in 1..6 : cleanCode[i] \in Digits

\* (?:code|otp|pin|passcode)\s*(?:is|:)\s*:?\s*<cleanCode>, flag i; the
\* escaping of cleanCode leaves letters and digits as they are
labelPattern(cleanCode) ==
    Compile(IgnoreCase(Cat(<<LabelWord, Star(Ws), Alt(<<Lit(<<"i","s">>), Lit(<<":">>)>>),
                             Star(Ws), Opt(Lit(<<":">>)), Star(Ws), Lit(cleanCode)>>)))

\* the capture group (the actual code) of one global match
CodeOf(k, match) ==
    LET codeMatch == MatchFirst(CODE_PATTERNS[k], match)
    IN  IF codeMatch = <<>> THEN match
        ELSE IF Len(codeMatch) >= 2 /\ codeMatch[2] # <<>> THEN codeMatch[2]
        ELSE codeMatch[1]

\* the clean-up without toUpperCase
CleanCodeAsFound(code) == StripSeparators(code)

CleanCode(code) == toUpperCase(StripSeparators(code))

ContextBonus == 10
ExplicitPatternBonus == 15
SixDigitBonus == 3
SubjectBonus == 5
LabelBonus == 20

\* the score with the context score added without its weight
ScoreUnweighted(fullText, subjectText, k, code, cleanCode, contextScore) ==
    contextScore
    + (IF k - 1 = 0 THEN ExplicitPatternBonus ELSE 0)
    + (IF IsSixDigits(cleanCode) THEN SixDigitBonus ELSE 0)
    + (IF Includes(subjectText, toLowerCase(code)) THEN SubjectBonus ELSE 0)
    + (IF Test(labelPattern(cleanCode), fullText) THEN LabelBonus ELSE 0)

\* the score with the six-digit test on the raw match
ScoreSixDigitRaw(fullText, subjectText, k, code, cleanCode, contextScore) ==
    contextScore * ContextBonus
    + (IF k - 1 = 0 THEN ExplicitPatternBonus ELSE 0)
    + (IF IsSixDigits(code) THEN SixDigitBonus ELSE 0)
    + (IF Includes(subjectText, toLowerCase(code)) THEN SubjectBonus ELSE 0)
    + (IF Test(labelPattern(cleanCode), fullText) THEN LabelBonus ELSE 0)

Score(fullText, subjectText, k, code, cleanCode, contextScore) ==
    contextScore * ContextBonus
    + (IF k - 1 = 0 THEN ExplicitPatternBonus ELSE 0)
    + (IF IsSixDigits(cleanCode) THEN SixDigitBonus ELSE 0)
    + (IF Includes(subjectText, toLowerCase(code)) THEN SubjectBonus ELSE 0)
    + (IF Test(labelPattern(cleanCode), fullText) THEN LabelBonus ELSE 0)

\* one iteration of the inner loop: the candidate pushed for a match, or none.
\* raw and patternIndex are not fields of the program's candidate; they record
\* the loop's locals at the push.
CandidateOf(fullText, subjectText, matchesOf, k, match) ==
    LET code      == CodeOf(k, match)
        cleanCode == CleanCode(code)
    IN  IF IsExcludedIn(matchesOf, cleanCode) THEN <<>>
        ELSE IF IsAlphabetic(cleanCode) THEN <<>>
        ELSE LET contextScore == scoreContext(fullText, code)
             IN  << [code |-> cleanCode,
                     score |-> Score(fullText, subjectText, k, code, cleanCode, contextScore),
                     contextScore |-> contextScore,
                     raw |-> code, patternIndex |-> k - 1] >>

\* the inner loop over the matches of pattern k
RECURSIVE CandidatesOfMatches(_,_,_,_,_,_)
CandidatesOfMatches(fullText, subjectText, matchesOf, k, matches, n) ==
    IF n > Len(matches) THEN <<>>
    ELSE CandidateOf(fullText, subjectText, matchesOf, k, matches[n])
         \o CandidatesOfMatches(fullText, subjectText, matchesOf, k, matches, n + 1)

\* the outer loop over the patterns, from pattern k on
RECURSIVE CandidatesFrom(_,_,_,_)
CandidatesFrom(fullText, subjectText, matchesOf, k) ==
    IF k > Len(CODE_PATTERNS) THEN <<>>
    ELSE CandidatesOfMatches(fullText, subjectText, matchesOf, k,
                             MatchAll(GlobalPattern(k), fullText), 1)
         \o CandidatesFrom(fullText, subjectText, matchesOf, k + 1)

CollectCandidates(fullText, subjectText) ==
    CandidatesFrom(fullText, subjectText, ExclusionMatches(fullText), 1)

\* the deduplication without the score comparison: the last candidate of a
\* code replaces the earlier ones
RECURSIVE DeduplicateKeepLast(_,_,_)
DeduplicateKeepLast(cands, n, best) ==
    IF n > Len(cands) THEN best
    ELSE LET c == cands[n]
             at == {i \in DOMAIN best : best[i].code = c.code}
         IN  IF at = {} THEN DeduplicateKeepLast(cands, n + 1, Append(best, c))
             ELSE LET i == CHOOSE j \in at : TRUE
                  IN  DeduplicateKeepLast(cands, n + 1, [best EXCEPT ![i] = c])

\* the Map bestByCode as the sequence of its values in insertion order:
\* set() on a present key replaces the value and keeps the key's position
RECURSIVE Deduplicate(_,_,_)
Deduplicate(cands, n, best) ==
    IF n > Len(cands) THEN best
    ELSE LET c == cands[n]
             at == {i \in DOMAIN best : best[i].code = c.code}
         IN  IF at = {} THEN Deduplicate(cands, n + 1, Append(best, c))
             ELSE LET i == CHOOSE j \in at : TRUE
                  IN  IF c.score > best[i].score
                      THEN Deduplicate(cands, n + 1, [best EXCEPT ![i] = c])
                      ELSE Deduplicate(cands, n + 1, best)

\* the insertion that puts a candidate before those of the same score
RECURSIVE InsertBeforeEqual(_,_)
InsertBeforeEqual(sorted, c) ==
    IF sorted = <<>> THEN <<c>>
    ELSE IF Head(sorted).score > c.score THEN <<Head(sorted)>> \o InsertBeforeEqual(Tail(sorted), c)
    ELSE <<c>> \o sorted

\* Array.prototype.sort((a, b) => b.score - a.score): stable, descending
RECURSIVE InsertByScore(_,_)
InsertByScore(sorted, c) ==
    IF sorted = <<>> THEN <<c>>
    ELSE IF Head(sorted).score >= c.score THEN <<Head(sorted)>> \o InsertByScore(Tail(sorted), c)
    ELSE <<c>> \o sorted

\* the deduplicated candidates left in the order they were found
SortByDiscovery(values, n, sorted) == values

RECURSIVE SortByScore(_,_,_)
SortByScore(values, n, sorted) ==
    IF n > Len(values) THEN sorted
    ELSE SortByScore(values, n + 1, InsertByScore(sorted, values[n]))

Null == [isNull |-> TRUE, code |-> <<>>]
Found(code) == [isNull |-> FALSE, code |-> code]

AcceptScore == 15

\* the threshold with the context test off by one
AcceptsAnyContext(best) == best.contextScore >= 0 \/ best.score >= AcceptScore

Accepts(best) == best.contextScore >= 1 \/ best.score >= AcceptScore

\* `${subject || ''} ${body || ''}`
FullText(subject, body) == subject \o <<" ">> \o body

\* ------------------------------------------------------------------------
\* Emails
\* ------------------------------------------------------------------------
\* phrases a body is put together from
TYourCodeIs == <<"y","o","u","r"," ","c","o","d","e"," ","i","s"," ">>
TEnter == <<"e","n","t","e","r"," ">>
TOtp == <<"o","t","p"," ">>
TPin == <<"p","i","n",":"," ">>
TSix == <<"4","8","2","9","1","3"," ">>
TSecond == <<"9","0","7","1","5","4"," ">>
TSequential == <<"1","2","3","4","5","6"," ">>
TFive == <<"4","8","2","1","3"," ">>
TPostal == <<"9","0","2","1","0"," ">>
TAlnum == <<"a","b","1","2","c","d"," ">>
TWord == <<"v","a","l","i","d"," ">>
TDashed == <<"4","8","2","-","9","1","3"," ">>
Vocabulary == {TYourCodeIs, TEnter, TOtp, TPin, TSix, TSecond, TSequential, TFive, TPostal, TAlnum, TWord, TDashed}

\* subjects
SNone == <<>>
SSecurityCode == <<"S","e","c","u","r","i","t","y"," ","c","o","d","e">>
SSix == <<"4","8","2","9","1","3">>
SPin == <<"P","I","N",":"," ","4","8","2","9">>
Subjects == {SNone, SSecurityCode, SSix, SPin}

MaxBodyTokens == 2

RECURSIVE Concat(_)
Concat(tokens) == IF tokens = <<>> THEN <<>> ELSE Head(tokens) \o Concat(Tail(tokens))

Bodies == UNION {{Concat(ts) : ts \in [1..m -> Vocabulary]} : m \in 0..MaxBodyTokens}

PhraseEmails == {[subject |-> s, body |-> b] : s \in Subjects, b \in Bodies}

\* digit strings of every supported length, and the shapes the filter rejects
CodeSamples == {
    <<"4","8","2","9">>,
    <<"9","0","7","1">>,
    <<"4","8","2","1","3">>,
    <<"4","8","2","9","1","3">>,
    <<"9","0","7","1","5","4">>,
    <<"4","8","2","9","1","3","3">>,
    <<"4","8","2","9","1","3","3","7">>,
    <<"2","0","2","4">>,
    <<"1","9","9","9">>,
    <<"7","7","7","7">>,
    <<"0","0","0","0","0","0">>,
    <<"1","2","3","4","5","6">>,
    <<"6","5","4","3","2","1">>,
    <<"3","2","1","0">> }

CodeIsPrefix == <<"Y","o","u","r"," ","v","e","r","i","f","i","c","a","t","i","o","n"," ","c","o","d","e"," ","i","s"," ">>

LengthEmail(d) == [subject |-> CodeIsPrefix \o d, body |-> <<>>]
LengthEmails == {LengthEmail(d) : d \in CodeSamples}

\* the scenarios of the specification, and a second date after a first
ScenarioEmails == {
    [subject |-> <<"Y","o","u","r"," ","v","e","r","i","f","i","c","a","t","i","o","n"," ","c","o","d","e"," ","i","s"," ","4","8","2","9","1","3">>,
     body |-> <<>>],
    [subject |-> <<"I","n","v","o","i","c","e"," ","#","4","8","2","9","1","3"," ","d","u","e">>,
     body |-> <<"P","l","e","a","s","e"," ","p","a","y"," ","b","y"," ","5","/","1","/","2","0","2","4">>],
    [subject |-> <<"S","e","c","u","r","i","t","y"," ","c","o","d","e">>,
     body |-> <<"U","s","e"," ","c","o","d","e",":"," ","A","B","1","2","C","D"," ","t","o"," ","s","i","g","n"," ","i","n","."," ","R","e","f",":"," ","9","1","0","2","9","3","8","4","7">>],
    [subject |-> <<"R","e","m","i","n","d","e","r">>,
     body |-> <<"Y","o","u","r"," ","a","p","p","o","i","n","t","m","e","n","t"," ","i","s"," ","o","n"," ","1","2","/","0","5","/","2","0","2","4"," ","a","t"," ","3",":","3","0","p","m","."," ","O","r","d","e","r"," ","4","8","2","9","1","3"," ","s","h","i","p","p","e","d",".">>],
    [subject |-> <<>>,
     body |-> <<"1","2","3","4","5","6">>],
    [subject |-> <<"Y","o","u","r"," ","c","o","d","e">>,
     body |-> <<"E","x","p","i","r","e","s"," ","0","1","/","0","2","/","2","0","2","4","."," ","O","r","d","e","r","e","d"," ","0","3","/","0","4","/","2","0","2","5">>] }

\* two codes in one email: one right after a strong phrase, one with nothing
\* around it, in both orders and through several patterns
TOneTime == <<"y","o","u","r"," ","o","n","e","-","t","i","m","e"," ","c","o","d","e"," ","i","s"," ">>
LabelledCodes == { <<"4","8","2","9","1","3">>, <<"4","8","2","-","9","1","3">>, <<"4","8","2","9">> }
PlainCodes == { <<"1","1","1","2","2","2">>, <<"1","1","1"," ","2","2","2">>,
                <<"7","3","9","1">>, <<"a","b","1","2","c","d">> }
Gap == [i \in 1..80 |-> "."]
RankingEmails ==
    {[subject |-> <<>>, body |-> a \o <<" ">> \o TOneTime \o b] : a \in PlainCodes, b \in LabelledCodes}
    \cup {[subject |-> <<>>, body |-> TOneTime \o b \o <<" ">> \o Gap \o <<" ">> \o a] :
              a \in PlainCodes, b \in LabelledCodes}

\* labels in a row: a label word that is itself captured as the token of the
\* label before it, and a label on its own
LabelRowEmails == {
    [subject |-> <<>>,
     body |-> <<"P","a","s","s","c","o","d","e",":"," ","c","o","d","e"," ","i","s"," ","7","F","3","K">>],
    [subject |-> <<>>,
     body |-> <<"c","o","d","e"," ","i","s"," ","c","o","d","e",":"," ","a","b","1","2">>],
    [subject |-> <<>>,
     body |-> <<"p","i","n"," ","i","s"," ","4","8","a","2">>] }

\* two codes with the same score: found by one pattern, and found by two
\* patterns in the order opposite to their order in the text
TieEmails == {
    [subject |-> <<"S","e","c","u","r","i","t","y"," ","c","o","d","e">>,
     body |-> <<"9","0","7","1","5","4"," ","o","r"," ","4","8","2","9","1","3">>],
    [subject |-> <<"S","e","c","u","r","i","t","y"," ","c","o","d","e">>,
     body |-> <<"4","8","2","9","1","3","3"," ","a","n","d"," ","9","0","7","1">>],
    [subject |-> <<>>,
     body |-> <<"u","s","e"," ","4","8","2","9","1","3"," ">> \o Gap \o <<" ","o","t","p"," ","9","0","7","1","5","4"," ","a","n","d"," ","4","8","2","-","9","1","3">>] }

Emails == PhraseEmails \cup LengthEmails \cup ScenarioEmails \cup RankingEmails \cup LabelRowEmails
          \cup TieEmails

\* texts the context scorer is applied to: keywords, filler and the code
KStrong == <<"O","T","P">>
KWeak == <<"u","s","e">>
Filler == [i \in 1..77 |-> "."]
Dot == <<".">>
ScoredCode == <<"4","8","2","9">>
Segments == {KStrong, KWeak, Filler, Dot, ScoredCode}

MaxSegments == 4

ScoredTexts == UNION {{Concat(ts) : ts \in [1..m -> Segments]} : m \in 0..MaxSegments}

\* ------------------------------------------------------------------------
\* State
\* ------------------------------------------------------------------------
VARIABLES
    email,        \* the email extractVerificationCode is called on
    pc,           \* "ready" before the call, "done" after it returned
    candidates,   \* the array candidates when the function returns
    ranked,       \* the array ranked when the function returns
    result,       \* the value returned
    scText,       \* scoreContext's argument text
    scCode,       \* scoreContext's argument code
    scResult,     \* the value scoreContext returned
    message,      \* the email record of a call in a series of calls
    calls,        \* the number of calls of the series made so far
    history,      \* subject, body and result of the calls that returned
    threw,        \* the call ended with an exception
    lastIndex,    \* the lastIndex property of the module's pattern objects
    token,        \* chrome.identity has a cached auth token
    now,          \* the clock, in ticks
    inbox,        \* the emails in the Gmail inbox
    lastPollTimestamp,  \* chrome.storage.local, 0 when not set
    currentCode,  \* chrome.storage.local
    badge,        \* the badge text of the extension icon
    run,          \* the run of checkForCodes or handleCheckNow in progress
    runs,         \* the runs of checkForCodes and handleCheckNow, when several overlap
    version,      \* the version of the popup script that is loaded
    panel,        \* the panel of the popup that is not hidden
    clipboard,    \* the text on the system clipboard
    popup,        \* the popup script's position and what it displays
    strArg,       \* isSequential's argument str
    sequential,   \* whether isSequential was called, and the value it returned
    locals        \* the position and the locals of a call run statement by statement

parserVars == <<email, pc, candidates, ranked, result, scText, scCode, scResult>>
callVars == <<message, calls, history, threw, lastIndex>>

workerVars == <<token, now, inbox, lastPollTimestamp, currentCode, badge, run, runs>>

popupVars == <<version, panel, clipboard, popup>>

unitVars == <<strArg, sequential, locals>>

vars == <<parserVars, callVars, workerVars, popupVars, unitVars>>

NoEmail == [subject |-> <<>>, body |-> <<>>]

\* a JavaScript value of an email field: a string or undefined
Undefined == [type |-> "undefined", value |-> <<>>]
Str(text) == [type |-> "string", value |-> text]

NoMessage == [subject |-> Undefined, body |-> Undefined, from |-> Undefined, timestamp |-> 0, id |-> ""]

\* the flags of the pattern literals, CODE_PATTERNS then EXCLUDE_PATTERNS
PatternFlags ==
    << {"i"}, {}, {}, {}, {}, {}, {"i"}, {}, {},
       {}, {}, {}, {}, {"i"}, {}, {}, {}, {"i"}, {} >>

\* a pattern object is created with lastIndex 0
FreshLastIndex == [k \in DOMAIN PatternFlags |-> 0]

\* the variables of a series of calls, when there is no series
CallsIdle ==
    /\ message = NoMessage
    /\ calls = 0
    /\ history = {}
    /\ threw = FALSE
    /\ lastIndex = FreshLastIndex

\* chrome.storage.local without the key currentCode
NoCurrentCode == [stored |-> FALSE, code |-> <<>>, subject |-> <<>>, timestamp |-> 0, copied |-> FALSE]

NoRun == [kind |-> "none", phase |-> "idle", since |-> 0, emails |-> <<>>, index |-> 0,
          examined |-> <<>>, stored |-> 0]

\* the number of runs that can overlap
MaxRuns == 2

Runs == 1..MaxRuns

\* what a run has answered: nothing yet, undefined (checkForCodes), an
\* error message or a code (handleCheckNow; code: null is NoCurrentCode)
NoResponse == [type |-> "none", message |-> "", code |-> NoCurrentCode]

\* a run that has not started; writes is not a variable of the program: it
\* records which keys of the storage and of the badge the run has written
IdleRun ==
    [kind |-> "none", phase |-> "idle", token |-> FALSE, since |-> 0, status |-> 0,
     emails |-> <<>>, index |-> 0, writes |-> {}, response |-> NoResponse,
     delivered |-> FALSE]

NoRuns == [r \in Runs |-> IdleRun]

\* the variables of the service worker, when it is not part of the system
WorkerIdle ==
    /\ token = FALSE
    /\ now = 0
    /\ inbox = {}
    /\ lastPollTimestamp = 0
    /\ currentCode = NoCurrentCode
    /\ badge = ""
    /\ run = NoRun
    /\ runs = NoRuns

\* the popup before it is opened
ClosedPopup ==
    [phase |-> "closed", shown |-> NoCurrentCode, fromStorage |-> FALSE, autoWrites |-> 0,
     copyStatus |-> "", after |-> "", header |-> FALSE, isChecking |-> FALSE,
     outstanding |-> 0, marking |-> "", read |-> NoCurrentCode]

\* the variables of the popup, when it is not part of the system
PopupIdle ==
    /\ version = ""
    /\ panel = ""
    /\ clipboard = <<>>
    /\ popup = ClosedPopup

\* isSequential before it is called
NotCalled == [called |-> FALSE, value |-> FALSE]

\* the locals of extractVerificationCode and of scoreContext before a call;
\* scans is not a local of the program: it records the largest number of
\* iterations one occurrence scan of the call has made
NoLocals ==
    [pc |-> "idle", patternIndex |-> 0, matches |-> <<>>, index |-> 0, code |-> <<>>,
     searchFrom |-> 0, bestScore |-> 0, iteration |-> 0, scans |-> 0,
     candidates |-> <<>>, result |-> [isNull |-> TRUE, code |-> <<>>]]

\* the variables of the functions run on their own, when unused
UnitsIdle ==
    /\ strArg = <<>>
    /\ sequential = NotCalled
    /\ locals = NoLocals

\* the variables of the single call and of the context scorer, when unused
ParserIdle ==
    /\ email = NoEmail
    /\ scText = <<>>
    /\ scCode = <<>>
    /\ scResult = 0

Init ==
    /\ email \in Emails
    /\ pc = "ready"
    /\ candidates = <<>>
    /\ ranked = <<>>
    /\ result = Null
    /\ scText = <<>>
    /\ scCode = <<>>
    /\ scResult = 0
    /\ CallsIdle
    /\ WorkerIdle
    /\ PopupIdle
    /\ UnitsIdle

\* null without candidates; otherwise the best candidate is returned when it
\* clears the threshold
Decide(cands, order) ==
    [candidates |-> cands,
     ranked     |-> order,
     result     |-> IF Len(cands) = 0 THEN Null
                    ELSE IF Accepts(order[1]) THEN Found(order[1].code)
                    ELSE Null]

\* deduplicate by code, then sort by score descending
Rank(cands) == Decide(cands, SortByScore(Deduplicate(cands, 1, <<>>), 1, <<>>))

\* the body of extractVerificationCode: the candidates pushed, the ranking
\* and the value returned
Extraction(subject, body) ==
    IF ~containsOtpKeywords(FullText(subject, body))
    THEN [candidates |-> <<>>, ranked |-> <<>>, result |-> Null]
    ELSE Rank(CollectCandidates(FullText(subject, body), toLowerCase(subject)))

\* extractVerificationCode(email)
extractVerificationCode ==
    /\ pc = "ready"
    /\ pc' = "done"
    /\ \E out \in {Extraction(email.subject, email.body)} :
          /\ candidates' = out.candidates
          /\ ranked' = out.ranked
          /\ result' = out.result
    /\ UNCHANGED <<email, scText, scCode, scResult>>
    /\ UNCHANGED <<callVars, unitVars, workerVars, popupVars>>

Next == extractVerificationCode

Spec == Init /\ [][Next]_vars

\* ------------------------------------------------------------------------
\* The context scorer on its own
\* ------------------------------------------------------------------------
InitContext ==
    /\ scText \in ScoredTexts
    /\ scCode = ScoredCode
    /\ scResult = 0
    /\ pc = "ready"
    /\ email = NoEmail
    /\ candidates = <<>>
    /\ ranked = <<>>
    /\ result = Null
    /\ CallsIdle
    /\ WorkerIdle
    /\ PopupIdle
    /\ UnitsIdle

\* scoreContext(text, code)
ScoreContextCall ==
    /\ pc = "ready"
    /\ pc' = "done"
    /\ scResult' = scoreContext(scText, scCode)
    /\ UNCHANGED <<email, candidates, ranked, result, scText, scCode>>
    /\ UNCHANGED <<callVars, unitVars, workerVars, popupVars>>

NextContext == ScoreContextCall

SpecContext == InitContext /\ [][NextContext]_vars

\* ------------------------------------------------------------------------
\* A series of calls
\* ------------------------------------------------------------------------
\* from, timestamp and id of the records
Envelopes == {
    [from |-> Str(<<"o","t","p"," ","d","e","s","k">>), timestamp |-> 1, id |-> "m1"],
    [from |-> Str(<<"b","@","y">>), timestamp |-> 2, id |-> "m2"] }

MessageSubjects == {Undefined, Str(<<>>), Str(SPin)}
MessageBodies == {Undefined, Str(<<>>), Str(TYourCodeIs \o TSix), Str(TSix)}

Messages ==
    {[subject |-> s, body |-> b, from |-> e.from, timestamp |-> e.timestamp, id |-> e.id] :
        s \in MessageSubjects, b \in MessageBodies, e \in Envelopes}

MaxCalls == 2

\* value || '' without the fallback
KeepValue(value) == value

\* value || ''
OrEmpty(value) ==
    IF value.type = "undefined" \/ value.value = <<>> THEN Str(<<>>) ELSE value

\* `${value}`
Template(value) ==
    IF value.type = "undefined" THEN <<"u","n","d","e","f","i","n","e","d">> ELSE value.value

\* the destructuring with the sender standing in for a missing subject
ReadEmailSender(record) ==
    [subject |-> IF record.subject.type = "undefined" THEN record.from ELSE record.subject,
     body |-> record.body]

\* const { subject, body } = email
ReadEmail(record) == [subject |-> record.subject, body |-> record.body]

\* lastIndex of a pattern object after String.prototype.match(pattern) on a
\* text it matches up to offset end: a global pattern is left at 0, a sticky
\* one at end, any other pattern is not written
AfterStringMatch(flags, index, end) ==
    IF "g" \in flags THEN 0 ELSE IF "y" \in flags THEN end ELSE index

\* the function body on the two values `subject || ''` and `body || ''`;
\* toLowerCase is a method of strings only
CallBody(subject, body) ==
    IF ~containsOtpKeywords(FullText(Template(subject), Template(body)))
    THEN [out |-> [candidates |-> <<>>, ranked |-> <<>>, result |-> Null],
          threw |-> FALSE, matched |-> FALSE, end |-> 0]
    ELSE IF subject.type # "string"
    THEN [out |-> [candidates |-> <<>>, ranked |-> <<>>, result |-> Null],
          threw |-> TRUE, matched |-> FALSE, end |-> 0]
    ELSE [out |-> Rank(CollectCandidates(FullText(Template(subject), Template(body)),
                                         toLowerCase(subject.value))),
          threw |-> FALSE, matched |-> TRUE,
          end |-> Len(FullText(Template(subject), Template(body)))]

Called(fields) == CallBody(OrEmpty(fields.subject), OrEmpty(fields.body))

InitCalls ==
    /\ message \in Messages
    /\ calls = 0
    /\ history = {}
    /\ threw = FALSE
    /\ lastIndex = FreshLastIndex
    /\ pc = "ready"
    /\ candidates = <<>>
    /\ ranked = <<>>
    /\ result = Null
    /\ ParserIdle
    /\ WorkerIdle
    /\ PopupIdle
    /\ UnitsIdle

\* extractVerificationCode(email), one call of a series
extractVerificationCodeCall ==
    /\ pc = "ready"
    /\ pc' = "done"
    /\ calls' = calls + 1
    /\ \E o \in {Called(ReadEmail(message))} :
          /\ candidates' = o.out.candidates
          /\ ranked' = o.out.ranked
          /\ result' = o.out.result
          /\ threw' = o.threw
          /\ lastIndex' =
                IF o.matched
                THEN [k \in DOMAIN lastIndex |->
                         AfterStringMatch(PatternFlags[k], lastIndex[k], o.end)]
                ELSE lastIndex
          /\ history' = history \cup
                {[id |-> message.id, subject |-> message.subject, body |-> message.body,
                  result |-> o.out.result]}
    /\ UNCHANGED <<message, email, scText, scCode, scResult>>
    /\ UNCHANGED <<workerVars, popupVars, unitVars>>

\* the caller turns to another record
NextCall ==
    /\ pc = "done"
    /\ calls < MaxCalls
    /\ message' \in Messages
    /\ pc' = "ready"
    /\ UNCHANGED <<calls, history, threw, lastIndex, candidates, ranked, result,
                   email, scText, scCode, scResult>>
    /\ UNCHANGED <<workerVars, popupVars, unitVars>>

NextCalls == extractVerificationCodeCall \/ NextCall

SpecCalls == InitCalls /\ [][NextCalls]_vars

\* ------------------------------------------------------------------------
\* The service worker
\* ------------------------------------------------------------------------
MaxTime == 3
MaxEmails == 2

\* one tick of the clock, in milliseconds
TickMs == 500

\* Date.now()
DateNow == now * TickMs

\* 60 * 60 * 1000
Hour == 3600000

\* maxResults of the list request
MaxResults == 10

\* the badge text of setBadgeText({ text: '\u2022' })
BadgeDot == "dot"

Max(a, b) == IF a >= b THEN a ELSE b
Min(a, b) == IF a <= b THEN a ELSE b

\* the emails that arrive: one without a code and two with different codes
Kinds == {"plain", "first", "second"}

MailText == [kind \in Kinds |->
    CASE kind = "plain"  -> [subject |-> <<"R","e","m","i","n","d","e","r">>, body |-> TWord]
      [] kind = "first"  -> [subject |-> <<"Y","o","u","r"," ","c","o","d","e">>, body |-> TYourCodeIs \o TSix]
      [] kind = "second" -> [subject |-> <<"Y","o","u","r"," ","c","o","d","e">>, body |-> TYourCodeIs \o TSecond]]

\* extractVerificationCode(email) for the emails that arrive
ResultOf == [kind \in Kinds |-> Extraction(MailText[kind].subject, MailText[kind].body).result]

\* the messages of the query `after:${afterDate} in:inbox`, afterDate being
\* Math.floor(since / 1000): those received in that second or later
Listed(since) == {e \in inbox : e.timestamp \div 1000 >= since \div 1000}

\* the orders a list response can have its messages in
Orders(S) == {o \in [1..Cardinality(S) -> S] : \A i, j \in 1..Cardinality(S) : o[i] = o[j] => i = j}

\* at most maxResults messages are listed
Page(order) == SubSeq(order, 1, Min(Len(order), MaxResults))

RECURSIVE InsertByTimestamp(_,_)
InsertByTimestamp(sorted, e) ==
    IF sorted = <<>> THEN <<e>>
    ELSE IF Head(sorted).timestamp >= e.timestamp
         THEN <<Head(sorted)>> \o InsertByTimestamp(Tail(sorted), e)
    ELSE <<e>> \o sorted

\* the emails left in the order of the list response
KeepListOrder(emails, n, sorted) == emails

\* .sort((a, b) => b.timestamp - a.timestamp): stable, newest first
RECURSIVE SortByTimestamp(_,_,_)
SortByTimestamp(emails, n, sorted) ==
    IF n > Len(emails) THEN sorted
    ELSE SortByTimestamp(emails, n + 1, InsertByTimestamp(sorted, emails[n]))

InitWorker ==
    /\ token \in BOOLEAN
    /\ now = 1
    /\ inbox = {}
    /\ lastPollTimestamp = 0
    /\ currentCode = NoCurrentCode
    /\ badge = ""
    /\ run = NoRun
    /\ runs = NoRuns
    /\ pc = "ready"
    /\ candidates = <<>>
    /\ ranked = <<>>
    /\ result = Null
    /\ ParserIdle
    /\ CallsIdle
    /\ PopupIdle
    /\ UnitsIdle

\* time passes
Tick ==
    /\ now < MaxTime
    /\ now' = now + 1
    /\ UNCHANGED <<token, inbox, lastPollTimestamp, currentCode, badge, run>>
    /\ UNCHANGED <<parserVars, callVars, unitVars, popupVars>>
    /\ UNCHANGED runs

\* Gmail receives an email: its internalDate is the time of receipt
Arrive ==
    /\ Cardinality(inbox) < MaxEmails
    /\ \E kind \in Kinds :
          inbox' = inbox \cup {[id |-> Cardinality(inbox) + 1, timestamp |-> DateNow, kind |-> kind]}
    /\ UNCHANGED <<token, now, lastPollTimestamp, currentCode, badge, run>>
    /\ UNCHANGED <<parserVars, callVars, unitVars, popupVars>>
    /\ UNCHANGED runs

\* no run is between its start and its return
RunOver == run.phase \in {"idle", "done"}

\* checkForCodes up to the call of fetchRecentEmails: since is
\* Math.max(lastPollTimestamp || 0, oneHourAgo)
BeginCheckForCodes ==
    [kind |-> "checkForCodes", phase |-> "fetch",
     since |-> Max(lastPollTimestamp, DateNow - Hour),
     emails |-> <<>>, index |-> 0, examined |-> <<>>, stored |-> 0]

\* handleAuthRequest: the interactive sign-in gives a token, and
\* checkForCodes is started
handleAuthRequest ==
    /\ ~token
    /\ RunOver
    /\ token' = TRUE
    /\ run' = BeginCheckForCodes
    /\ UNCHANGED <<now, inbox, lastPollTimestamp, currentCode, badge>>
    /\ UNCHANGED <<parserVars, callVars, unitVars, popupVars>>
    /\ UNCHANGED runs

\* the alarm fires and checkForCodes starts; without a token it returns at
\* once
checkForCodes ==
    /\ token
    /\ RunOver
    /\ run' = BeginCheckForCodes
    /\ UNCHANGED <<token, now, inbox, lastPollTimestamp, currentCode, badge>>
    /\ UNCHANGED <<parserVars, callVars, unitVars, popupVars>>
    /\ UNCHANGED runs

\* the popup sends CHECK_NOW and handleCheckNow starts: since is oneHourAgo
handleCheckNow ==
    /\ token
    /\ RunOver
    /\ run' = [kind |-> "handleCheckNow", phase |-> "fetch", since |-> DateNow - Hour,
               emails |-> <<>>, index |-> 0, examined |-> <<>>, stored |-> 0]
    /\ UNCHANGED <<token, now, inbox, lastPollTimestamp, currentCode, badge>>
    /\ UNCHANGED <<parserVars, callVars, unitVars, popupVars>>
    /\ UNCHANGED runs

\* fetchRecentEmails(token, since) returns
fetchRecentEmails ==
    /\ run.phase = "fetch"
    /\ \E order \in Orders(Listed(run.since)) :
          run' = [run EXCEPT !.emails = SortByTimestamp(Page(order), 1, <<>>),
                             !.phase = "stamp"]
    /\ UNCHANGED <<token, now, inbox, lastPollTimestamp, currentCode, badge>>
    /\ UNCHANGED <<parserVars, callVars, unitVars, popupVars>>
    /\ UNCHANGED runs

\* chrome.storage.local.set({ lastPollTimestamp: Date.now() }); without
\* emails the run returns
StampLastPoll ==
    /\ run.phase = "stamp"
    /\ lastPollTimestamp' = DateNow
    /\ run' = [run EXCEPT !.phase = IF run.emails = <<>> THEN "done" ELSE "examine",
                          !.index = 1]
    /\ UNCHANGED <<token, now, inbox, currentCode, badge>>
    /\ UNCHANGED <<parserVars, callVars, unitVars, popupVars>>
    /\ UNCHANGED runs

\* the record stored for the code found in email e
CodeData(e) ==
    [stored |-> TRUE, code |-> ResultOf[e.kind].code, subject |-> MailText[e.kind].subject,
     timestamp |-> e.timestamp, copied |-> FALSE]

\* checkForCodes stores a code that differs from the stored one in code or
\* timestamp; handleCheckNow stores whatever it finds
IsNewCode(e) ==
    \/ run.kind = "handleCheckNow"
    \/ ~currentCode.stored
    \/ currentCode.code # ResultOf[e.kind].code
    \/ currentCode.timestamp # e.timestamp

\* one iteration of `for (const email of emails)`
ExamineEmail ==
    /\ run.phase = "examine"
    /\ LET e == run.emails[run.index]
       IN  IF ResultOf[e.kind].isNull
           THEN /\ run' = [run EXCEPT !.examined = Append(@, e),
                                      !.index = @ + 1,
                                      !.phase = IF run.index = Len(run.emails) THEN "done" ELSE "examine"]
                /\ UNCHANGED <<currentCode, badge>>
           ELSE /\ run' = [run EXCEPT !.examined = Append(@, e),
                                      !.stored = IF IsNewCode(e) THEN e.id ELSE 0,
                                      !.phase = "done"]
                /\ currentCode' = IF IsNewCode(e) THEN CodeData(e) ELSE currentCode
                /\ badge' = IF IsNewCode(e) THEN BadgeDot ELSE badge
    /\ UNCHANGED <<token, now, inbox, lastPollTimestamp>>
    /\ UNCHANGED <<parserVars, callVars, unitVars, popupVars>>
    /\ UNCHANGED runs

NextWorker ==
    \/ Tick
    \/ Arrive
    \/ handleAuthRequest
    \/ checkForCodes
    \/ handleCheckNow
    \/ fetchRecentEmails
    \/ StampLastPoll
    \/ ExamineEmail

SpecWorker == InitWorker /\ [][NextWorker]_vars

\* the alarm keeps firing and every await of a run resolves
SpecWorkerLive ==
    /\ SpecWorker
    /\ WF_vars(checkForCodes)
    /\ WF_vars(fetchRecentEmails)
    /\ WF_vars(StampLastPoll)
    /\ WF_vars(ExamineEmail)

\* ------------------------------------------------------------------------
\* The popup
\* ------------------------------------------------------------------------
\* the popup scripts: popup.js from line 1, popup.js from line 365, part_000
Versions == {"popup.js:1", "popup.js:365", "part_000"}

\* the records the service worker stores
StoredCodes == {CodeData([id |-> 1, timestamp |-> TickMs, kind |-> "first"]),
                CodeData([id |-> 2, timestamp |-> 2 * TickMs, kind |-> "second"])}

InitPopup ==
    /\ version \in Versions
    /\ token \in BOOLEAN
    /\ currentCode = NoCurrentCode
    /\ badge = ""
    /\ panel = ""
    /\ clipboard = <<>>
    /\ popup = ClosedPopup
    /\ now = 0
    /\ inbox = {}
    /\ lastPollTimestamp = 0
    /\ run = NoRun
    /\ runs = NoRuns
    /\ pc = "ready"
    /\ candidates = <<>>
    /\ ranked = <<>>
    /\ result = Null
    /\ ParserIdle
    /\ CallsIdle
    /\ UnitsIdle

\* checkForCodes stores a code it has not stored yet and shows the badge dot
StoreNewCode ==
    /\ \E c \in StoredCodes :
          /\ ~currentCode.stored \/ currentCode.code # c.code \/ currentCode.timestamp # c.timestamp
          /\ currentCode' = c
    /\ badge' = BadgeDot
    /\ UNCHANGED <<version, panel, clipboard, popup>>
    /\ UNCHANGED <<token, now, inbox, lastPollTimestamp, run>>
    /\ UNCHANGED <<parserVars, callVars, unitVars>>
    /\ UNCHANGED runs

\* the user clicks the extension icon: the popup loads and runs init()
OpenPopup ==
    /\ popup.phase = "closed"
    /\ popup' = [ClosedPopup EXCEPT !.phase = "init", !.after = "OpenPopup"]
    /\ panel' = ""
    /\ UNCHANGED <<version, clipboard>>
    /\ UNCHANGED <<parserVars, callVars, unitVars, workerVars>>

\* displayCode(codeData) up to the clipboard write: the code panel is shown,
\* and a code not yet copied is written to the clipboard
DisplayCode(p, codeData, stored) ==
    [p EXCEPT !.phase = IF codeData.copied THEN "open" ELSE "copying",
              !.shown = codeData,
              !.fromStorage = stored,
              !.autoWrites = 0,
              !.copyStatus = "",
              !.after = "displayCode"]

\* checkNow is entered with isChecking false
NotChecking(isChecking) == FALSE

\* if (isChecking) return;
AlreadyChecking(isChecking) == isChecking

\* checkNow() up to the await of the response: unless a check is under way,
\* isChecking is set, the button is disabled and CHECK_NOW is sent
StartCheck(p) ==
    IF AlreadyChecking(p.isChecking) THEN p
    ELSE [p EXCEPT !.isChecking = TRUE, !.outstanding = @ + 1]

\* init(): without a token the sign-in panel; with a stored code the code
\* panel; without one, a check (popup.js:1, part_000) or the no-code panel
\* (popup.js:365)
init ==
    /\ popup.phase = "init"
    /\ IF ~token
       THEN /\ panel' = "authRequired"
            /\ popup' = [popup EXCEPT !.phase = "open", !.header = FALSE, !.after = "init"]
       ELSE IF currentCode.stored /\ currentCode.code # <<>>
       THEN /\ panel' = "codeAvailable"
            /\ popup' = DisplayCode([popup EXCEPT !.header = TRUE], currentCode, TRUE)
       ELSE IF version = "popup.js:365"
       THEN /\ panel' = "noCode"
            /\ popup' = [popup EXCEPT !.phase = "open", !.header = TRUE, !.after = "init"]
       ELSE /\ panel' = "loading"
            /\ popup' = StartCheck([popup EXCEPT !.phase = "open", !.header = TRUE,
                                                 !.after = "init"])
    /\ UNCHANGED <<version, clipboard>>
    /\ UNCHANGED <<parserVars, callVars, unitVars, workerVars>>

\* handleAuth: the response to AUTH_REQUEST is a success, and init() runs
\* again, or a failure, and the error panel is shown
handleAuth ==
    /\ popup.phase = "open"
    /\ panel = "authRequired"
    /\ \E success \in BOOLEAN :
          IF success
          THEN /\ token' = TRUE
               /\ popup' = [popup EXCEPT !.phase = "init", !.after = "handleAuth"]
               /\ UNCHANGED panel
          ELSE /\ panel' = "error"
               /\ popup' = [popup EXCEPT !.after = "handleAuth"]
               /\ UNCHANGED token
    /\ UNCHANGED <<version, clipboard>>
    /\ UNCHANGED <<now, inbox, lastPollTimestamp, currentCode, badge, run>>
    /\ UNCHANGED <<parserVars, callVars, unitVars>>
    /\ UNCHANGED runs

\* handleRetry: the retry button of the error panel runs init() again
handleRetry ==
    /\ popup.phase = "open"
    /\ panel = "error"
    /\ popup' = [popup EXCEPT !.phase = "init", !.after = "handleRetry"]
    /\ UNCHANGED <<version, panel, clipboard>>
    /\ UNCHANGED <<parserVars, callVars, unitVars, workerVars>>

\* checkNow() is called from the listener of the check-now button in the
\* header (popup.js:1 and part_000)
checkNow ==
    /\ popup.phase = "open"
    /\ popup.header
    /\ version # "popup.js:365"
    /\ popup' = StartCheck([popup EXCEPT !.after = "checkNow"])
    /\ UNCHANGED <<version, panel, clipboard>>
    /\ UNCHANGED <<parserVars, callVars, unitVars, workerVars>>

\* the finally block of checkNow: setCheckingState(false)
CheckOver(p) == [p EXCEPT !.isChecking = FALSE, !.outstanding = @ - 1, !.after = "checkNow"]

\* checkNow() after the await: without a token the response is the error
\* 'No auth token'; with one it is another error (a 401 removes the cached
\* token), no code, or the code handleCheckNow has just stored; or
\* sendMessage has thrown
CheckNowResponse ==
    /\ popup.phase = "open"
    /\ popup.outstanding > 0
    /\ IF ~token
       THEN /\ \/ /\ panel' = "authRequired"
                   /\ popup' = CheckOver([popup EXCEPT !.header = FALSE])
                \/ /\ panel' = "error"
                   /\ popup' = CheckOver(popup)
            /\ UNCHANGED <<token, currentCode, badge>>
       ELSE \/ /\ panel' = "error"
               /\ popup' = CheckOver(popup)
               /\ token' \in BOOLEAN
               /\ UNCHANGED <<currentCode, badge>>
            \/ /\ panel' = "noCode"
               /\ popup' = CheckOver(popup)
               /\ UNCHANGED <<token, currentCode, badge>>
            \/ \E c \in StoredCodes :
                  /\ currentCode' = c
                  /\ badge' = BadgeDot
                  /\ panel' = "codeAvailable"
                  /\ popup' = DisplayCode(CheckOver(popup), c, FALSE)
                  /\ UNCHANGED token
    /\ UNCHANGED <<version, clipboard>>
    /\ UNCHANGED <<now, inbox, lastPollTimestamp, run>>
    /\ UNCHANGED <<parserVars, callVars, unitVars>>
    /\ UNCHANGED runs

\* the record left as it is
NotMarked(codeData) == codeData

\* the record with copied: true
Copied(codeData) == [codeData EXCEPT !.copied = TRUE]

\* copyToClipboard(code) in displayCode resolves.  On success popup.js:365
\* stores the record it read in init() with copied: true; the other
\* versions call chrome.storage.local.get first.
copyToClipboard ==
    /\ popup.phase = "copying"
    /\ \E success \in BOOLEAN :
          IF ~success
          THEN /\ popup' = [popup EXCEPT !.phase = "open", !.after = "copyToClipboard"]
               /\ UNCHANGED <<clipboard, currentCode>>
          ELSE /\ clipboard' = popup.shown.code
               /\ IF version = "popup.js:365"
                  THEN /\ currentCode' = Copied(popup.shown)
                       /\ popup' = [popup EXCEPT !.phase = "open", !.autoWrites = @ + 1,
                                                 !.copyStatus = "Auto-copied to clipboard!",
                                                 !.after = "markCopied"]
                  ELSE /\ UNCHANGED currentCode
                       /\ popup' = [popup EXCEPT !.phase = "marking", !.autoWrites = @ + 1,
                                                 !.copyStatus = "Auto-copied to clipboard!",
                                                 !.marking = "markCopied",
                                                 !.after = "copyToClipboard"]
    /\ UNCHANGED <<version, panel>>
    /\ UNCHANGED <<token, now, inbox, lastPollTimestamp, badge, run>>
    /\ UNCHANGED <<parserVars, callVars, unitVars>>
    /\ UNCHANGED runs

\* handleCopy: the copy button writes the displayed code and, on success,
\* calls chrome.storage.local.get to mark the stored record
handleCopy ==
    /\ popup.phase = "open"
    /\ panel = "codeAvailable"
    /\ \E success \in BOOLEAN :
          IF success
          THEN /\ clipboard' = popup.shown.code
               /\ popup' = [popup EXCEPT !.phase = "marking",
                                         !.copyStatus = "Copied to clipboard!",
                                         !.marking = "handleCopy",
                                         !.after = "handleCopy"]
          ELSE /\ popup' = [popup EXCEPT !.copyStatus = "Copy failed - click to try again",
                                         !.after = "handleCopy"]
               /\ UNCHANGED clipboard
    /\ UNCHANGED <<version, panel>>
    /\ UNCHANGED <<parserVars, callVars, unitVars, workerVars>>

\* chrome.storage.local.get(['currentCode'], callback) reads the storage;
\* the callback runs later with what was read
readCurrentCode ==
    /\ popup.phase = "marking"
    /\ popup' = [popup EXCEPT !.phase = "writing", !.read = currentCode]
    /\ UNCHANGED <<version, panel, clipboard>>
    /\ UNCHANGED <<parserVars, callVars, unitVars, workerVars>>

\* the callback of chrome.storage.local.get: a record that was read is
\* stored with copied: true
markCopied ==
    /\ popup.phase = "writing"
    /\ currentCode' = IF popup.read.stored THEN Copied(popup.read) ELSE currentCode
    /\ popup' = [popup EXCEPT !.phase = "open", !.after = popup.marking, !.marking = "",
                              !.read = NoCurrentCode]
    /\ UNCHANGED <<version, panel, clipboard>>
    /\ UNCHANGED <<token, now, inbox, lastPollTimestamp, badge, run>>
    /\ UNCHANGED <<parserVars, callVars, unitVars>>
    /\ UNCHANGED runs

\* the methods of chrome.action; a call of anything else is a TypeError
ActionMethods == {"setBadgeText", "setBadgeBackgroundColor", "setBadgeTextColor",
                  "getBadgeText", "setIcon", "setPopup", "setTitle", "enable", "disable"}

\* the method of chrome.action that handleClear calls to empty the badge
ClearBadgeCall == IF version = "popup.js:365" THEN "setBadge" ELSE "setBadgeText"

\* handleClear: the stored code is removed, the badge is emptied and the
\* no-code panel is shown; an exception ends the handler where it is raised
handleClear ==
    /\ popup.phase = "open"
    /\ panel = "codeAvailable"
    /\ currentCode' = NoCurrentCode
    /\ IF ClearBadgeCall \in ActionMethods
       THEN /\ badge' = ""
            /\ panel' = "noCode"
       ELSE UNCHANGED <<badge, panel>>
    /\ popup' = [popup EXCEPT !.after = "handleClear"]
    /\ UNCHANGED <<version, clipboard>>
    /\ UNCHANGED <<token, now, inbox, lastPollTimestamp, run>>
    /\ UNCHANGED <<parserVars, callVars, unitVars>>
    /\ UNCHANGED runs

\* the popup loses focus and is closed
ClosePopup ==
    /\ popup.phase = "open"
    /\ popup' = ClosedPopup
    /\ panel' = ""
    /\ UNCHANGED <<version, clipboard>>
    /\ UNCHANGED <<parserVars, callVars, unitVars, workerVars>>

NextPopup ==
    \/ StoreNewCode
    \/ OpenPopup
    \/ init
    \/ handleAuth
    \/ handleRetry
    \/ checkNow
    \/ CheckNowResponse
    \/ copyToClipboard
    \/ handleCopy
    \/ readCurrentCode
    \/ markCopied
    \/ handleClear
    \/ ClosePopup

SpecPopup == InitPopup /\ [][NextPopup]_vars

\* ------------------------------------------------------------------------
\* Overlapping runs of the service worker
\* ------------------------------------------------------------------------
\* the HTTP status of the list response
Statuses == {200, 401, 500}

\* every list response taken for a success
AlwaysOk(status) == TRUE

\* Response.ok
ListOk(status) == status >= 200 /\ status <= 299

\* a token is assumed
TokenAssumed(tok) == FALSE

\* !token
NoToken(tok) == ~tok

\* a code that is stored whatever the storage holds
StoresAlways(kind, e, stored) == TRUE

\* whether a run stores the code of email e, stored being the currentCode it
\* reads: handleCheckNow always does, checkForCodes when code or timestamp
\* differ
StoresCode(kind, e, stored) ==
    \/ kind = "handleCheckNow"
    \/ ~stored.stored
    \/ stored.code # ResultOf[e.kind].code
    \/ stored.timestamp # e.timestamp

\* the value a run returns with no code stored by it: checkForCodes returns
\* undefined, handleCheckNow { code: null }
ReturnsPlain(kind) ==
    IF kind = "checkForCodes" THEN [NoResponse EXCEPT !.type = "undefined"]
    ELSE [NoResponse EXCEPT !.type = "code"]

\* the value a run returns without a token
WithoutToken(kind) ==
    IF kind = "checkForCodes" THEN [NoResponse EXCEPT !.type = "undefined"]
    ELSE [NoResponse EXCEPT !.type = "error", !.message = "No auth token"]

\* the value a run returns when fetchRecentEmails throws: checkForCodes
\* logs the error, handleCheckNow answers { error: err.message }
Caught(kind, status) ==
    IF kind = "checkForCodes" THEN [NoResponse EXCEPT !.type = "undefined"]
    ELSE [NoResponse EXCEPT !.type = "error",
              !.message = IF status = 401 THEN "Token expired" ELSE "Gmail API error"]

\* the panel checkNow shows for a response
PanelFor(response) ==
    IF response.type = "error"
    THEN IF response.message = "No auth token" THEN "authRequired" ELSE "error"
    ELSE IF response.code.stored THEN "codeAvailable" ELSE "noCode"

\* a run up to its first request: without a token it returns at once
BeginRun(kind, since) ==
    IF NoToken(token)
    THEN [IdleRun EXCEPT !.kind = kind, !.token = token, !.phase = "done",
                         !.response = WithoutToken(kind)]
    ELSE [IdleRun EXCEPT !.kind = kind, !.token = token, !.phase = "fetch", !.since = since]

InitRuns ==
    /\ token \in BOOLEAN
    /\ now = 1
    /\ inbox = {}
    /\ lastPollTimestamp = 0
    /\ currentCode = NoCurrentCode
    /\ badge = ""
    /\ run = NoRun
    /\ runs = NoRuns
    /\ pc = "ready"
    /\ candidates = <<>>
    /\ ranked = <<>>
    /\ result = Null
    /\ ParserIdle
    /\ CallsIdle
    /\ PopupIdle
    /\ UnitsIdle

\* the runs start in the order of their numbers
NextToStart(r) ==
    /\ runs[r].phase = "idle"
    /\ \A q \in Runs : q < r => runs[q].phase # "idle"

\* the alarm fires (or setupAlarm runs) and checkForCodes starts
onAlarm ==
    \E r \in Runs :
       /\ NextToStart(r)
       /\ runs' = [runs EXCEPT ![r] = BeginRun("checkForCodes", BeginCheckForCodes.since)]
       /\ UNCHANGED <<token, now, inbox, lastPollTimestamp, currentCode, badge, run>>
       /\ UNCHANGED <<parserVars, callVars, unitVars, popupVars>>

\* a popup sends CHECK_NOW and handleCheckNow starts
onCheckNow ==
    \E r \in Runs :
       /\ NextToStart(r)
       /\ runs' = [runs EXCEPT ![r] = BeginRun("handleCheckNow", DateNow - Hour)]
       /\ UNCHANGED <<token, now, inbox, lastPollTimestamp, currentCode, badge, run>>
       /\ UNCHANGED <<parserVars, callVars, unitVars, popupVars>>

\* fetchRecentEmails(token, since) of a run returns the emails, newest
\* first, or throws; a 401 removes the cached token first
FetchReturns ==
    \E r \in Runs, status \in Statuses :
       /\ runs[r].phase = "fetch"
       /\ IF ListOk(status)
          THEN /\ \E order \in Orders(Listed(runs[r].since)) :
                     runs' = [runs EXCEPT ![r].status = status,
                                          ![r].emails = SortByTimestamp(Page(order), 1, <<>>),
                                          ![r].phase = "stamp"]
               /\ UNCHANGED token
          ELSE /\ runs' = [runs EXCEPT ![r].status = status,
                                       ![r].phase = "done",
                                       ![r].response = Caught(runs[r].kind, status)]
               /\ token' = IF status = 401 THEN FALSE ELSE token
       /\ UNCHANGED <<now, inbox, lastPollTimestamp, currentCode, badge, run>>
       /\ UNCHANGED <<parserVars, callVars, unitVars, popupVars>>

\* chrome.storage.local.set({ lastPollTimestamp: Date.now() }) of a run;
\* without emails the run returns
StampRun ==
    \E r \in Runs :
       /\ runs[r].phase = "stamp"
       /\ lastPollTimestamp' = DateNow
       /\ runs' = [runs EXCEPT ![r].writes = @ \cup {"lastPollTimestamp"},
                               ![r].index = 1,
                               ![r].phase = IF runs[r].emails = <<>> THEN "done" ELSE "examine",
                               ![r].response = IF runs[r].emails = <<>>
                                               THEN ReturnsPlain(runs[r].kind) ELSE @]
       /\ UNCHANGED <<token, now, inbox, currentCode, badge, run>>
       /\ UNCHANGED <<parserVars, callVars, unitVars, popupVars>>

\* the run after the email at its index, which has no code
Skip(r) ==
    IF runs[r].index = Len(runs[r].emails)
    THEN [runs EXCEPT ![r].phase = "done", ![r].response = ReturnsPlain(runs[r].kind)]
    ELSE [runs EXCEPT ![r].index = @ + 1]

\* the run after the email e, which has a code
Finish(r, e, stores) ==
    [runs EXCEPT ![r].phase = "done",
                 ![r].writes = IF stores THEN @ \cup {"currentCode", "badge"} ELSE @,
                 ![r].response = IF runs[r].kind = "handleCheckNow"
                                 THEN [NoResponse EXCEPT !.type = "code", !.code = CodeData(e)]
                                 ELSE ReturnsPlain(runs[r].kind)]

\* one iteration of `for (const email of emails)` of a run
ExamineRun ==
    \E r \in Runs :
       /\ runs[r].phase = "examine"
       /\ \E e \in {runs[r].emails[runs[r].index]} :
             IF ResultOf[e.kind].isNull
             THEN /\ runs' = Skip(r)
                  /\ UNCHANGED <<currentCode, badge>>
             ELSE \E stores \in {StoresCode(runs[r].kind, e, currentCode)} :
                  /\ runs' = Finish(r, e, stores)
                  /\ currentCode' = IF stores THEN CodeData(e) ELSE currentCode
                  /\ badge' = IF stores THEN BadgeDot ELSE badge
       /\ UNCHANGED <<token, now, inbox, lastPollTimestamp, run>>
       /\ UNCHANGED <<parserVars, callVars, unitVars, popupVars>>

\* checkNow of the popup receives the response of handleCheckNow and shows
\* the panel for it
ShowResponse ==
    \E r \in Runs :
       /\ runs[r].kind = "handleCheckNow"
       /\ runs[r].phase = "done"
       /\ ~runs[r].delivered
       /\ runs' = [runs EXCEPT ![r].delivered = TRUE]
       /\ panel' = PanelFor(runs[r].response)
       /\ UNCHANGED <<version, clipboard, popup>>
       /\ UNCHANGED <<token, now, inbox, lastPollTimestamp, currentCode, badge, run>>
       /\ UNCHANGED <<parserVars, callVars, unitVars>>

\* a popup has copied the stored code and stores it with copied: true
MarkStored ==
    /\ currentCode.stored
    /\ ~currentCode.copied
    /\ currentCode' = Copied(currentCode)
    /\ UNCHANGED <<token, now, inbox, lastPollTimestamp, badge, run, runs>>
    /\ UNCHANGED <<parserVars, callVars, unitVars, popupVars>>

NextRuns ==
    \/ Tick
    \/ Arrive
    \/ onAlarm
    \/ onCheckNow
    \/ FetchReturns
    \/ StampRun
    \/ ExamineRun
    \/ ShowResponse
    \/ MarkStored

SpecRuns == InitRuns /\ [][NextRuns]_vars

\* ------------------------------------------------------------------------
\* isSequential on its own
\* ------------------------------------------------------------------------
MaxLen == 3

\* the characters of the strings isSequential is called on
SequentialChars == Digits \cup {"a"}

\* the strings of at most MaxLen characters
SequentialInputs == UNION {[1..n -> SequentialChars] : n \in 0..MaxLen}

InitSequential ==
    /\ strArg \in SequentialInputs
    /\ sequential = NotCalled
    /\ locals = NoLocals
    /\ pc = "ready"
    /\ candidates = <<>>
    /\ ranked = <<>>
    /\ result = Null
    /\ ParserIdle
    /\ CallsIdle
    /\ WorkerIdle
    /\ PopupIdle

\* isSequential(str)
isSequentialCall ==
    /\ ~sequential.called
    /\ sequential' = [called |-> TRUE, value |-> isSequential(strArg)]
    /\ UNCHANGED <<strArg, locals>>
    /\ UNCHANGED <<parserVars, callVars, workerVars, popupVars>>

NextSequential == isSequentialCall

SpecSequential == InitSequential /\ [][NextSequential]_vars

\* ------------------------------------------------------------------------
\* extractVerificationCode and scoreContext, statement by statement
\* ------------------------------------------------------------------------
\* emails in which a code occurs several times
RepeatEmails == {
    [subject |-> <<"7","3","9","1">>,
     body |-> <<"7","3","9","1"," ","e","n","t","e","r"," ","7","3","9","1"," ","o","t","p"," ","7","3","9","1">>],
    [subject |-> <<>>,
     body |-> <<"7","3","9","1"," ","2","f","a"," ","7","3","9","1">>],
    [subject |-> <<>>,
     body |-> <<"7","3","9","1"," ","2","f","a"," ","7","3","9","1",".">>] }

StepEmails == ScenarioEmails \cup RankingEmails \cup LabelRowEmails \cup RepeatEmails

InitSteps ==
    /\ email \in StepEmails
    /\ locals = [NoLocals EXCEPT !.pc = "start"]
    /\ strArg = <<>>
    /\ sequential = NotCalled
    /\ pc = "ready"
    /\ candidates = <<>>
    /\ ranked = <<>>
    /\ result = Null
    /\ scText = <<>>
    /\ scCode = <<>>
    /\ scResult = 0
    /\ CallsIdle
    /\ WorkerIdle
    /\ PopupIdle

\* a step of the call changes its locals only
OnlyLocals ==
    /\ UNCHANGED <<strArg, sequential>>
    /\ UNCHANGED <<parserVars, callVars, workerVars, popupVars>>

\* what the while loop of scoreContext finds from the cursor searchFrom: the
\* index of the next occurrence and the keywords in the 80 characters before
OccurrenceFrom(lowerText, lowerCode, codeIndex) ==
    [codeIndex |-> codeIndex,
     strong    |-> codeIndex # -1
                   /\ HasKeyword(Slice(lowerText, Max(0, codeIndex - ContextWindow), codeIndex),
                                 STRONG_CONTEXT_KEYWORDS),
     weak      |-> codeIndex # -1
                   /\ HasKeyword(Slice(lowerText, Max(0, codeIndex - ContextWindow), codeIndex),
                                 WEAK_CONTEXT_KEYWORDS)]

\* what the body of the loop over the matches computes for one match: the
\* code, the clean code, whether the match is skipped, what the scan finds
\* from each cursor, and the score for each context score
MatchRow(fullText, subjectText, k, match, code) ==
    [match     |-> match,
     code      |-> code,
     cleanCode |-> CleanCode(code),
     skipped   |-> IsExcludedIn(ExclusionMatches(fullText), CleanCode(code))
                   \/ IsAlphabetic(CleanCode(code)),
     found     |-> [searchFrom \in 0..Len(fullText) |->
                      OccurrenceFrom(toLowerCase(fullText), toLowerCase(code),
                                     IndexOf(toLowerCase(fullText), toLowerCase(code), searchFrom))],
     score     |-> [contextScore \in 0..2 |->
                      Score(fullText, subjectText, k, code, CleanCode(code), contextScore)]]

MatchRows(fullText, subjectText, k, matches) ==
    [n \in 1..Len(matches) |-> MatchRow(fullText, subjectText, k, matches[n], CodeOf(k, matches[n]))]

\* the texts of the calls: what the patterns and the searches find in each
\* is a function of the text alone
KeywordsIn == [e \in StepEmails |-> containsOtpKeywords(FullText(e.subject, e.body))]

RowsIn ==
    [e \in StepEmails |-> [k \in DOMAIN CODE_PATTERNS |->
        MatchRows(FullText(e.subject, e.body), toLowerCase(e.subject), k,
                  MatchAll(GlobalPattern(k), FullText(e.subject, e.body)))]]

\* the gate: null without an OTP keyword, otherwise the loop over the
\* patterns starts
AfterKeywords(l, hasKeywords) ==
    IF ~hasKeywords
    THEN [l EXCEPT !.pc = "done", !.result = Null]
    ELSE [l EXCEPT !.pc = "pattern", !.patternIndex = 0]

CheckKeywords ==
    /\ locals.pc = "start"
    /\ locals' = AfterKeywords(locals, KeywordsIn[email])
    /\ OnlyLocals

\* fullText.match(globalPattern): without matches the next pattern,
\* otherwise the loop over the matches
WithMatches(l, rows) ==
    IF Len(rows) = 0
    THEN [l EXCEPT !.patternIndex = @ + 1]
    ELSE [l EXCEPT !.pc = "match", !.matches = [n \in 1..Len(rows) |-> rows[n].match],
                   !.index = 0]

\* the head of the loop over the patterns
NextPattern ==
    /\ locals.pc = "pattern"
    /\ IF ~(locals.patternIndex < Len(CODE_PATTERNS))
       THEN locals' = [locals EXCEPT !.pc = "rank"]
       ELSE locals' = WithMatches(locals, RowsIn[email][locals.patternIndex + 1])
    /\ OnlyLocals

\* a match whose code is excluded or purely alphabetic is skipped; for
\* another scoreContext is entered
WithCode(l, row) ==
    IF row.skipped
    THEN [l EXCEPT !.index = @ + 1]
    ELSE [l EXCEPT !.pc = "scan", !.code = row.code, !.searchFrom = 0, !.bestScore = 0,
                   !.iteration = 0]

\* the head of the loop over the matches of the pattern
NextMatch ==
    /\ locals.pc = "match"
    /\ IF ~(locals.index < Len(locals.matches))
       THEN locals' = [locals EXCEPT !.pc = "pattern", !.patternIndex = @ + 1,
                                    !.matches = <<>>, !.index = 0]
       ELSE locals' = WithCode(locals, RowsIn[email][locals.patternIndex + 1][locals.index + 1])
    /\ OnlyLocals

\* scoreContext returns contextScore
Leave(l, contextScore) ==
    [l EXCEPT !.pc = "score", !.bestScore = contextScore, !.scans = Max(@, l.iteration)]

\* the cursor left on the occurrence
SearchFromOccurrence(codeIndex, lowerCode) == codeIndex

\* searchFrom = codeIndex + lowerCode.length
SearchFromBehind(codeIndex, lowerCode) == codeIndex + Len(lowerCode)

\* the body of the while loop after indexOf
AtOccurrence(l, found) ==
    IF found.codeIndex = -1 THEN Leave(l, l.bestScore)
    ELSE IF found.strong THEN Leave([l EXCEPT !.iteration = @ + 1], 2)
    ELSE [l EXCEPT !.iteration = @ + 1,
                   !.bestScore = IF found.weak THEN Max(@, 1) ELSE @,
                   !.searchFrom = SearchFromBehind(found.codeIndex, toLowerCase(l.code))]

\* one iteration of the while loop of scoreContext
ScanOccurrence ==
    /\ locals.pc = "scan"
    /\ IF ~(locals.searchFrom < Len(FullText(email.subject, email.body)))
       THEN locals' = Leave(locals, locals.bestScore)
       ELSE locals' = AtOccurrence(locals,
                         RowsIn[email][locals.patternIndex + 1][locals.index + 1].found[locals.searchFrom])
    /\ OnlyLocals

\* the candidate is scored and pushed
Pushed(l, row) ==
    [l EXCEPT !.pc = "match",
              !.index = @ + 1,
              !.candidates = Append(@, [code |-> row.cleanCode,
                                        score |-> row.score[l.bestScore],
                                        contextScore |-> l.bestScore,
                                        raw |-> row.code,
                                        patternIndex |-> l.patternIndex])]

PushCandidate ==
    /\ locals.pc = "score"
    /\ locals' = Pushed(locals, RowsIn[email][locals.patternIndex + 1][locals.index + 1])
    /\ OnlyLocals

\* after the loops: deduplicate, sort and decide
RankCandidates ==
    /\ locals.pc = "rank"
    /\ locals' = [locals EXCEPT !.pc = "done", !.result = Rank(locals.candidates).result]
    /\ OnlyLocals

NextSteps ==
    \/ CheckKeywords
    \/ NextPattern
    \/ NextMatch
    \/ ScanOccurrence
    \/ PushCandidate
    \/ RankCandidates

\* the call is synchronous: once started it runs to its return
SpecSteps == InitSteps /\ [][NextSteps]_vars /\ WF_vars(NextSteps)

\* ------------------------------------------------------------------------
\* Properties
\* ------------------------------------------------------------------------
Returned == pc = "done" /\ ~result.isNull

\* the combined text of the email under extraction
EmailText == FullText(email.subject, email.body)

AllDigits(str) == \A i \in DOMAIN str : str[i] \in Digits

\* some OTP keyword is a substring of the lower-cased text
MentionsOtp(text) ==
    \E k \in DOMAIN OTP_KEYWORDS : \E i \in 0..Len(text) :
        OccursAt(toLowerCase(text), OTP_KEYWORDS[k], i)

\* C1: keyword gate.  An email whose combined text (subject, a space, body,
\* lower-cased) contains no OTP keyword as a substring yields null, whatever
\* digit or alphanumeric tokens it contains.
KeywordGate == (pc = "done" /\ ~MentionsOtp(EmailText)) => result = Null

\* a six-digit number right after a weak context word, in an email with no
\* OTP keyword
KeywordGateWitness ==
    /\ pc = "done"
    /\ ~MentionsOtp(EmailText)
    /\ Includes(email.body, TEnter \o TSix)
    /\ result = Null

\* all digits of d are the same digit
Constant(d) == AllDigits(d) /\ \A i, j \in DOMAIN d : d[i] = d[j]

\* the digits of d count up by one, or count down by one, from the first
ConsecutiveRun(d) ==
    /\ AllDigits(d)
    /\ \/ \A i \in DOMAIN d : DigitVal[d[i]] = DigitVal[d[1]] + (i - 1)
       \/ \A i \in DOMAIN d : DigitVal[d[i]] = DigitVal[d[1]] - (i - 1)

\* C2: the code returned is never a digit string of identical digits, nor an
\* ascending or descending run of consecutive digits, also right after a
\* strong context phrase or an explicit label.
NoTrivialCode == Returned => ~Constant(result.code) /\ ~ConsecutiveRun(result.code)

\* "code is" directly followed by 123456, 654321 or 000000
NoTrivialCodeWitness ==
    /\ pc = "done"
    /\ \E d \in {<<"1","2","3","4","5","6">>, <<"6","5","4","3","2","1">>,
                 <<"0","0","0","0","0","0">>} :
           Includes(EmailText, <<"c","o","d","e"," ","i","s"," ">> \o d)
    /\ result = Null

\* C3: acceptance threshold.  When the top-ranked surviving candidate has
\* contextScore 0 and a total score below 15, the result is null, also when
\* it is the only candidate of an email that passed the keyword gate.
AcceptanceThreshold ==
    (pc = "done" /\ ranked # <<>> /\ ranked[1].contextScore = 0 /\ ranked[1].score < 15)
        => result = Null

\* a lone candidate without context in an email that passed the gate
AcceptanceThresholdWitness ==
    /\ pc = "done"
    /\ MentionsOtp(EmailText)
    /\ Len(ranked) = 1
    /\ ranked[1].contextScore = 0
    /\ ranked[1].score < 15
    /\ result = Null

\* an explicit label phrase for code in text: code, otp, pin or passcode, then
\* "is" or ":", then code, with optional white space between the parts and an
\* optional second colon before the code; letters compared without case
IsLabelGap(str) ==
    /\ \A i \in DOMAIN str : str[i] \in WhiteSpace \cup {":"}
    /\ Cardinality({i \in DOMAIN str : str[i] = ":"}) <= 1

IsBlank(str) == \A i \in DOMAIN str : str[i] \in WhiteSpace

HasLabelPhrase(text, code) ==
    LET lower == toLowerCase(text)
        N     == Len(text)
    IN  \E word \in {<<"c","o","d","e">>, <<"o","t","p">>, <<"p","i","n">>,
                     <<"p","a","s","s","c","o","d","e">>} :
        \E a \in {i \in 0..N : OccursAt(lower, word, i)} :
        \E verb \in {<<"i","s">>, <<":">>} :
        \E b \in {i \in (a + Len(word))..N : OccursAt(lower, verb, i)} :
            /\ IsBlank(Slice(lower, a + Len(word), b))
            /\ \E d \in {i \in (b + Len(verb))..N : OccursAt(lower, toLowerCase(code), i)} :
                   IsLabelGap(Slice(lower, b + Len(verb), d))

\* C4: scoring formula.  The total score of every surviving candidate is
\* 10 * contextScore, + 15 if pattern 0 produced it, + 3 if the cleaned code is
\* exactly six digits, + 5 if the lower-cased subject contains the lower-cased
\* raw match, + 20 if an explicit label phrase for the cleaned code occurs in
\* the full text; nothing else contributes.
ScoringFormula ==
    \A n \in DOMAIN candidates :
        LET c == candidates[n]
        IN  c.score =
                10 * c.contextScore
                + (IF c.patternIndex = 0 THEN 15 ELSE 0)
                + (IF Len(c.code) = 6 /\ AllDigits(c.code) THEN 3 ELSE 0)
                + (IF \E i \in 0..Len(email.subject) :
                          OccursAt(toLowerCase(email.subject), toLowerCase(c.raw), i)
                   THEN 5 ELSE 0)
                + (IF HasLabelPhrase(EmailText, c.code) THEN 20 ELSE 0)

\* one candidate earns every term, another of the same email does not
ScoringFormulaWitness ==
    /\ pc = "done"
    /\ \E n \in DOMAIN candidates : candidates[n].score = 10 * 2 + 15 + 3 + 5 + 20
    /\ \E n \in DOMAIN candidates : candidates[n].score < 10 * 2 + 15 + 3 + 5 + 20

\* the matches of exclusion pattern k anywhere in the text
ExclusionOccurrences(text, k) == MatchAll(EXCLUDE_PATTERNS[k], text)

InsideExclusion(text, code) ==
    \E k \in DOMAIN EXCLUDE_PATTERNS :
        LET found == ExclusionOccurrences(text, k)
        IN  \E n \in DOMAIN found : Includes(found[n], code)

\* C5: exclusion by shape.  A candidate whose cleaned code is a substring of
\* any match, at any occurrence in the full text, of any exclusion pattern is
\* excluded and never returned.
ExclusionByShape ==
    /\ \A n \in DOMAIN candidates : ~InsideExclusion(EmailText, candidates[n].code)
    /\ Returned => ~InsideExclusion(EmailText, result.code)

\* the occurrences of code in text that a scan resuming just after each
\* occurrence it finds comes to: an occurrence is scanned unless it overlaps
\* a scanned one before it
ScannedOccurrences(text, code) ==
    LET N == Len(text)
        scanned[p \in 0..N] ==
            /\ OccursAt(text, code, p)
            /\ \A q \in 0..(p - 1) : q + Len(code) > p => ~scanned[q]
    IN  {p \in 0..N : scanned[p]}

\* the (up to) 80 characters before offset p
Preceding(text, p) == Slice(text, IF p > 80 THEN p - 80 ELSE 0, p)

NearKeyword(text, p, keywords) ==
    \E k \in DOMAIN keywords : \E i \in 0..80 : OccursAt(Preceding(text, p), keywords[k], i)

ExpectedContext(text, code) ==
    LET lowerText == toLowerCase(text)
        at        == ScannedOccurrences(lowerText, toLowerCase(code))
    IN  IF \E p \in at : NearKeyword(lowerText, p, STRONG_CONTEXT_KEYWORDS) THEN 2
        ELSE IF \E p \in at : NearKeyword(lowerText, p, WEAK_CONTEXT_KEYWORDS) THEN 1
        ELSE 0

\* C6: context scorer.  scoreContext(text, code) is 2 iff the 80 characters
\* before some scanned occurrence of the lower-cased code in the lower-cased
\* text contain a strong keyword, otherwise 1 iff those before some scanned
\* occurrence contain a weak keyword, otherwise 0; a strong keyword before a
\* later occurrence gives 2 whatever the earlier occurrences had.
ContextScorer == pc = "done" => scResult = ExpectedContext(scText, scCode)

\* the first occurrence has a weak keyword or nothing before it, a later one
\* has a strong keyword within 80 characters
ContextScorerWitness ==
    /\ pc = "done"
    /\ scResult = 2
    /\ LET lowerText == toLowerCase(scText)
           at        == ScannedOccurrences(lowerText, toLowerCase(scCode))
       IN  \E p, q \in at :
               /\ p < q
               /\ \A r \in at : p <= r
               /\ ~NearKeyword(lowerText, p, STRONG_CONTEXT_KEYWORDS)
               /\ NearKeyword(lowerText, q, STRONG_CONTEXT_KEYWORDS)

\* the highest score among the candidates that normalise to code
MaxScore(code) ==
    LET scores == {candidates[n].score : n \in {m \in DOMAIN candidates : candidates[m].code = code}}
    IN  CHOOSE x \in scores : \A y \in scores : y <= x

\* C7: deduplication by cleaned code.  After deduplication there is at most
\* one entry per cleaned code, its score is the maximum over all candidates
\* that normalise to that code, and the accept/abstain decision on the
\* returned code is made on that maximum.
Deduplication ==
    pc = "done" =>
        /\ \A i, j \in DOMAIN ranked : ranked[i].code = ranked[j].code => i = j
        /\ {ranked[i].code : i \in DOMAIN ranked} = {candidates[n].code : n \in DOMAIN candidates}
        /\ \A i \in DOMAIN ranked : ranked[i].score = MaxScore(ranked[i].code)
        /\ ranked # <<>> =>
              (~result.isNull <=>
                  (ranked[1].contextScore >= 1 \/ MaxScore(ranked[1].code) >= 15))
        /\ ~result.isNull => result.code = ranked[1].code

\* the returned code came from candidates with different scores
DeduplicationWitness ==
    /\ Returned
    /\ \E n, m \in DOMAIN candidates :
           /\ candidates[n].code = result.code
           /\ candidates[m].code = result.code
           /\ candidates[n].score < candidates[m].score

\* C8: output shape.  The code of every non-null result consists of the
\* characters A-Z and 0-9 only and is 4 to 8 characters long.
OutputShape ==
    Returned =>
        /\ Len(result.code) >= 4
        /\ Len(result.code) <= 8
        /\ \A i \in DOMAIN result.code : result.code[i] \in Uppers \cup Digits

\* a code returned in another spelling than the text has it in: lower-case
\* letters or a dash in the text
OutputShapeWitness ==
    /\ Returned
    /\ ~Includes(EmailText, result.code)
    /\ \E n \in DOMAIN candidates :
           candidates[n].code = result.code /\ "-" \in {candidates[n].raw[i] : i \in DOMAIN candidates[n].raw}
    /\ \E n \in DOMAIN candidates :
           candidates[n].code # candidates[n].raw /\ ~AllDigits(candidates[n].code)

\* C9: a purely alphabetic token is never returned: the code of every
\* non-null result contains a digit, also when the explicit-label pattern
\* captures an ordinary word.
NeverAlphabetic == Returned => \E i \in DOMAIN result.code : result.code[i] \in Digits

\* the explicit-label pattern captures the word of "code is valid"
NeverAlphabeticWitness ==
    /\ pc = "done"
    /\ MentionsOtp(EmailText)
    /\ Includes(EmailText, <<"c","o","d","e"," ","i","s"," ","v","a","l","i","d">>)
    /\ \A n \in DOMAIN candidates : candidates[n].code # <<"V","A","L","I","D">>

\* d has the form 19xx or 20xx
YearLike(d) ==
    /\ Len(d) = 4
    /\ <<d[1], d[2]>> \in {<<"1","9">>, <<"2","0">>}

\* C10: supported code lengths.  For every n from 4 to 8 and every n-digit
\* string d that is not of identical digits, not a consecutive run and not of
\* the form 19xx or 20xx, the email with subject "Your verification code is "
\* followed by d and an empty body yields the code d.
SupportedLengths ==
    \A d \in CodeSamples :
        (/\ pc = "done"
         /\ email = LengthEmail(d)
         /\ Len(d) \in 4..8
         /\ AllDigits(d)
         /\ ~Constant(d) /\ ~ConsecutiveRun(d) /\ ~YearLike(d))
            => result = Found(d)

\* the cleaned codes of the candidates
CandidateCodes == {candidates[n].code : n \in DOMAIN candidates}

\* every candidate of code has context 0, comes from a pattern other than the
\* explicit one and has no label phrase in the text
WithoutEvidence(code) ==
    \A n \in DOMAIN candidates :
        candidates[n].code = code =>
            /\ candidates[n].contextScore = 0
            /\ candidates[n].patternIndex # 0
            /\ ~HasLabelPhrase(EmailText, code)

\* some match that cleans to code stands right after a strong keyword and a
\* space
AfterStrongPhrase(code) ==
    \E n \in DOMAIN candidates :
        /\ candidates[n].code = code
        /\ \E k \in DOMAIN STRONG_CONTEXT_KEYWORDS :
               Includes(toLowerCase(EmailText),
                        STRONG_CONTEXT_KEYWORDS[k] \o <<" ">> \o toLowerCase(candidates[n].raw))

\* C11: ranking is by evidence, not discovery order.  When exactly two
\* distinct cleaned codes survive exclusion, one whose candidates have
\* contextScore 0, are not from pattern 0 and are not explicitly labelled, and
\* one directly preceded by a strong phrase, the result is the latter,
\* whichever comes first in the text and whichever pattern found each.
RankingByEvidence ==
    pc = "done" =>
        \A a, b \in CandidateCodes :
            (a # b /\ CandidateCodes = {a, b} /\ WithoutEvidence(a) /\ AfterStrongPhrase(b))
                => result = Found(b)

\* the code without evidence is the first candidate found, by a pattern of
\* lower index, and the other code is returned
RankingByEvidenceWitness ==
    /\ pc = "done"
    /\ \E a, b \in CandidateCodes :
           /\ a # b /\ CandidateCodes = {a, b}
           /\ WithoutEvidence(a) /\ AfterStrongPhrase(b)
           /\ candidates[1].code = a
           /\ \A n \in DOMAIN candidates : candidates[n].code = b => candidates[n].patternIndex > candidates[1].patternIndex
           /\ result = Found(b)

\* the tokens captured by the matches of the explicit-label pattern (index 0)
\* that start at any offset of the text, cleaned
LabelledTokens(text) ==
    LET found == {Exec(CODE_PATTERNS[1], text, i) : i \in 0..Len(text)} \ {<<>>}
    IN  {CleanCode(Slice(text, m[3][1], m[3][2])) : m \in found}

HasDigit(str) == \E i \in DOMAIN str : str[i] \in Digits

\* C12: explicitly labelled codes are accepted.  If an email passes the
\* keyword gate and its text contains a match of the index-0 pattern whose
\* captured token contains a digit and is not excluded, the result is
\* non-null, whatever the context score of the token.
LabelledAccepted ==
    (pc = "done" /\ MentionsOtp(EmailText)) =>
        \A captured \in LabelledTokens(EmailText) :
            (HasDigit(captured) /\ ~isExcluded(EmailText, captured)) => ~result.isNull

\* C13: no cross-call state.  In any series of calls, a call returns what
\* every other call on a record with the same subject and body returned,
\* the first call of the series (made in a fresh state) included, whatever
\* from, timestamp and id are and whatever was called in between; the
\* pattern objects of the tables are left as they were created.
NoCrossCallState ==
    /\ lastIndex = FreshLastIndex
    /\ pc = "done" =>
          \A h \in history :
              (h.subject = message.subject /\ h.body = message.body) => h.result = result

\* the same subject and body under another id, called before, gave the same
\* code
NoCrossCallStateWitness ==
    /\ pc = "done"
    /\ calls >= 2
    /\ ~result.isNull
    /\ \E h \in history :
           /\ h.id # message.id
           /\ h.subject = message.subject /\ h.body = message.body
           /\ h.result = result

\* the text of a field, a missing field read as the empty string
TextOf(value) == IF value.type = "string" THEN value.value ELSE <<>>

\* C14: extractVerificationCode never raises for a record whose subject and
\* body are strings, empty strings or missing: the outcome is null or
\* {code}, and it is the outcome for the record with the empty string in
\* place of each missing field.
NeverRaises ==
    pc = "done" =>
        /\ ~threw
        /\ result = Null \/ (result = Found(result.code) /\ result.code # <<>>)
        /\ result = Extraction(TextOf(message.subject), TextOf(message.body)).result

\* a record without subject whose body holds a code, and a record without
\* either field
NeverRaisesWitness ==
    /\ pc = "done"
    /\ ~threw
    /\ message.subject = Undefined
    /\ \/ message.body = Str(TYourCodeIs \o TSix) /\ result = Found(SSix)
       \/ message.body = Undefined /\ result = Null /\ calls >= 2

\* the emails of the run's fetch for which extractVerificationCode returns a
\* code
FetchedWithCode == {i \in DOMAIN run.emails : ~ResultOf[run.emails[i].kind].isNull}

\* C15: most-recent-first policy.  In one run of checkForCodes or
\* handleCheckNow the fetched emails are examined in descending timestamp
\* order, from the first on, and examination stops at the first email for
\* which extractVerificationCode returns a code; the only code the run can
\* store is the one of the newest fetched email with a non-null extraction.
MostRecentFirst ==
    /\ Len(run.examined) <= Len(run.emails)
    /\ \A i \in DOMAIN run.examined : run.examined[i] = run.emails[i]
    /\ \A i, j \in DOMAIN run.examined :
          i < j => /\ run.examined[i].timestamp >= run.examined[j].timestamp
                   /\ ResultOf[run.examined[i].kind].isNull
    /\ (run.phase = "done" /\ FetchedWithCode # {}) =>
          /\ run.examined # <<>>
          /\ ~ResultOf[run.examined[Len(run.examined)].kind].isNull
    /\ run.stored # 0 =>
          \E i \in FetchedWithCode :
              /\ run.emails[i].id = run.stored
              /\ currentCode = CodeData(run.emails[i])
              /\ \A j \in FetchedWithCode : run.emails[j].timestamp <= run.emails[i].timestamp

\* two emails with codes were fetched, the older one received first; the
\* run examined the newer one only and stored its code
MostRecentFirstWitness ==
    /\ run.phase = "done"
    /\ Len(run.emails) = 2
    /\ FetchedWithCode = {1, 2}
    /\ run.emails[1].timestamp > run.emails[2].timestamp
    /\ Len(run.examined) = 1
    /\ run.stored = run.emails[1].id
    /\ currentCode.code = ResultOf[run.emails[1].kind].code

\* currentCode holds the code of inbox email f
HoldsCodeOf(f) ==
    /\ currentCode.stored
    /\ ~ResultOf[f.kind].isNull
    /\ currentCode.code = ResultOf[f.kind].code
    /\ currentCode.timestamp = f.timestamp

\* C16: eventual notification.  With an auth token, fetches that succeed and
\* an alarm that keeps firing, every email that arrives in the inbox and for
\* which extractVerificationCode returns a code eventually leads to
\* currentCode holding a code from that email or from a code-bearing email
\* at least as new, with the badge showing a dot.
EventualNotification ==
    \A id \in 1..MaxEmails :
        (token /\ \E e \in inbox : e.id = id /\ ~ResultOf[e.kind].isNull)
            ~> (/\ badge = BadgeDot
                /\ \E e, f \in inbox :
                       e.id = id /\ f.timestamp >= e.timestamp /\ HoldsCodeOf(f))

\* C17: whenever handleClear runs, in each version of the popup, the stored
\* currentCode is removed, the badge text is empty and the no-code panel is
\* shown afterwards
DismissClears ==
    [][handleClear => (~currentCode'.stored /\ badge' = "" /\ panel' = "noCode")]_vars

\* the stored record is the one the popup displays
SameRecord == /\ currentCode.stored
              /\ currentCode.code = popup.shown.code
              /\ currentCode.timestamp = popup.shown.timestamp

\* C18: the step that completes the automatic copy of a popup opened on a
\* stored code not yet copied leaves the code on the clipboard and the stored
\* record marked copied; init() on a stored record that is marked copied
\* shows the code and writes nothing to the clipboard
AutoCopyOnFirstOpen ==
    [][/\ (/\ popup.fromStorage
           /\ ~popup.shown.copied
           /\ popup.phase \in {"copying", "writing"}
           /\ popup'.after = "markCopied")
          => (/\ clipboard' = popup.shown.code
              /\ popup'.autoWrites = 1
              /\ (SameRecord' => currentCode'.copied))
       /\ (init /\ token /\ currentCode.stored /\ currentCode.code # <<>> /\ currentCode.copied)
          => (/\ popup'.phase = "open"
              /\ popup'.autoWrites = 0
              /\ panel' = "codeAvailable"
              /\ clipboard' = clipboard
              /\ currentCode' = currentCode)]_vars

\* a popup opened on a stored code has copied it and marked the record
AutoCopyOnFirstOpenWitness ==
    /\ popup.fromStorage
    /\ ~popup.shown.copied
    /\ popup.after = "markCopied"
    /\ popup.autoWrites = 1
    /\ SameRecord
    /\ currentCode.copied
    /\ clipboard = currentCode.code

\* every character of str is a digit
OnlyDigits == \A i \in 1..Len(strArg) : strArg[i] \in Digits

\* every digit of str equals its predecessor plus d
StepsBy(d) ==
    \A i \in 2..Len(strArg) : DigitVal[strArg[i]] = DigitVal[strArg[i - 1]] + d

\* C19 as stated: isSequential(str) is true exactly when str consists only of
\* digits and every digit equals its predecessor plus 1 or every digit equals
\* its predecessor minus 1; true for a single digit, false with a non-digit
SequentialAsStated ==
    sequential.called =>
        /\ sequential.value <=> (OnlyDigits /\ (StepsBy(1) \/ StepsBy(-1)))
        /\ (Len(strArg) = 1 /\ OnlyDigits) => sequential.value
        /\ ~OnlyDigits => ~sequential.value

\* C19: isSequential(str) is true exactly when str is not empty, consists
\* only of digits and every digit equals its predecessor plus 1 or every digit
\* equals its predecessor minus 1, without wrap-around; true for a single
\* digit, false with a non-digit
SequentialRuns ==
    sequential.called =>
        /\ sequential.value <=> (Len(strArg) >= 1 /\ OnlyDigits /\ (StepsBy(1) \/ StepsBy(-1)))
        /\ (Len(strArg) = 1 /\ OnlyDigits) => sequential.value
        /\ ~OnlyDigits => ~sequential.value

\* isSequential has returned true for a descending run of three digits
SequentialRunsWitness ==
    /\ sequential.called
    /\ sequential.value
    /\ Len(strArg) = 3
    /\ StepsBy(-1)

\* C20: each iteration of the occurrence scan of scoreContext moves the
\* cursor forward, the loops stay within the pattern list and the match
\* list, and every call of extractVerificationCode returns, with the result
\* of the function
Termination ==
    /\ [][(locals.pc = "scan" /\ locals'.pc = "scan")
             => locals'.searchFrom > locals.searchFrom]_vars
    /\ [](/\ locals.patternIndex <= Len(CODE_PATTERNS)
          /\ locals.index <= Len(locals.matches)
          /\ locals.searchFrom <= Len(FullText(email.subject, email.body)))
    /\ [](locals.pc = "done"
            => /\ locals.result = Extraction(email.subject, email.body).result
               /\ locals.candidates = Extraction(email.subject, email.body).candidates)
    /\ <>(locals.pc = "done")

\* a call has returned a code after a scan of three iterations and more
\* than one candidate
TerminationWitness ==
    /\ locals.pc = "done"
    /\ ~locals.result.isNull
    /\ locals.scans >= 3
    /\ Len(locals.candidates) >= 2

\* the gate has passed for the email of the call
GatePassed == containsOtpKeywords(FullText(email.subject, email.body))

\* C25: after the keyword gate passes, extractVerificationCode returns null
\* only if no candidate, before or after deduplication, has contextScore >= 1
\* or score >= 15
AbstentionComplete ==
    (pc = "done" /\ GatePassed /\ result.isNull)
        => /\ \A i \in DOMAIN candidates : ~Accepts(candidates[i])
           /\ \A i \in DOMAIN ranked : ~Accepts(ranked[i])

\* a call has returned null with several candidates of different scores
AbstentionCompleteWitness ==
    /\ pc = "done"
    /\ GatePassed
    /\ result.isNull
    /\ Len(ranked) >= 2
    /\ ranked[1].score > ranked[2].score
    /\ ranked[2].score > 0

\* the highest score of the candidates
TopScore == CHOOSE m \in {candidates[i].score : i \in DOMAIN candidates} :
                \A i \in DOMAIN candidates : candidates[i].score <= m

\* the codes that have a candidate of the highest score
TopCodes == {candidates[i].code : i \in {j \in DOMAIN candidates : candidates[j].score = TopScore}}

\* the position in extraction order of the first candidate of a code
FirstOf(code) == CHOOSE i \in DOMAIN candidates :
                    /\ candidates[i].code = code
                    /\ \A j \in DOMAIN candidates : candidates[j].code = code => i <= j

\* C26: when several distinct codes share the highest score, the code
\* returned is the one of them whose first candidate was produced earliest
TieBreak ==
    (pc = "done" /\ ~result.isNull /\ Cardinality(TopCodes) >= 2)
        => /\ result.code \in TopCodes
           /\ \A code \in TopCodes : FirstOf(result.code) <= FirstOf(code)

\* a code was returned from a tie in which its first candidate comes from an
\* earlier pattern than the first candidate of the other code
TieBreakWitness ==
    /\ pc = "done"
    /\ ~result.isNull
    /\ Cardinality(TopCodes) >= 2
    /\ \E code \in TopCodes :
          candidates[FirstOf(result.code)].patternIndex < candidates[FirstOf(code)].patternIndex

\* C24: a popup has at most one CHECK_NOW request outstanding, and when
\* none is outstanding isChecking is false (the button is enabled)
SingleCheck ==
    /\ popup.outstanding <= 1
    /\ popup.isChecking <=> popup.outstanding = 1

\* a check started from the check-now button has completed with an error
\* and the button is enabled again
SingleCheckWitness ==
    /\ popup.after = "checkNow"
    /\ popup.header
    /\ ~popup.isChecking
    /\ popup.outstanding = 0
    /\ panel = "error"

\* C27: the popup's write of copied: true leaves the stored code and
\* timestamp as they were just before the write
MarkKeepsNewest ==
    [][(popup' # popup /\ popup.phase = "writing")
         => [currentCode' EXCEPT !.copied = currentCode.copied] = currentCode]_vars

\* the email a run is about to examine
Examined(r) == runs[r].emails[runs[r].index]

\* a run of checkForCodes is at the newest fetched email with a code, and
\* code and timestamp are those of the stored currentCode
FindsStored(r) ==
    /\ runs[r].kind = "checkForCodes"
    /\ runs[r].phase = "examine"
    /\ ~ResultOf[Examined(r).kind].isNull
    /\ currentCode.stored
    /\ currentCode.code = ResultOf[Examined(r).kind].code
    /\ currentCode.timestamp = Examined(r).timestamp

\* C21: a run of checkForCodes that finds the code and timestamp of the
\* stored currentCode leaves currentCode, its copied flag and the badge as
\* they are and returns; of the storage it has written lastPollTimestamp only
NoReannounce ==
    [][\A r \in Runs :
          (FindsStored(r) /\ runs'[r] # runs[r])
             => /\ currentCode' = currentCode
                /\ badge' = badge
                /\ runs'[r].phase = "done"
                /\ runs'[r].writes = {"lastPollTimestamp"}]_vars

\* a run of checkForCodes has found the stored code and has returned without
\* storing it; the stored code is marked as copied
NoReannounceWitness ==
    \E r \in Runs :
       /\ runs[r].kind = "checkForCodes"
       /\ runs[r].phase = "done"
       /\ runs[r].index \in DOMAIN runs[r].emails
       /\ ~ResultOf[Examined(r).kind].isNull
       /\ runs[r].writes = {"lastPollTimestamp"}
       /\ currentCode.copied
       /\ currentCode.code = ResultOf[Examined(r).kind].code
       /\ currentCode.timestamp = Examined(r).timestamp

\* C22: a run whose list request was answered with an error status has
\* returned without writing lastPollTimestamp, currentCode or the badge;
\* checkForCodes returns normally, handleCheckNow answers with an error
FetchFailureUntouched ==
    \A r \in Runs :
       (runs[r].status # 0 /\ ~(runs[r].status \in 200..299))
          => /\ runs[r].phase = "done"
             /\ runs[r].writes = {}
             /\ runs[r].emails = <<>>
             /\ runs[r].kind = "checkForCodes" => runs[r].response.type = "undefined"
             /\ runs[r].kind = "handleCheckNow" =>
                   /\ runs[r].response.type = "error"
                   /\ runs[r].response.message # ""

\* a run of each kind has failed in its fetch after another run stored a code
FetchFailureUntouchedWitness ==
    /\ currentCode.stored
    /\ \E r \in Runs : runs[r].status = 401 /\ runs[r].kind = "handleCheckNow"
                        /\ runs[r].phase = "done" /\ ~token

\* a run that has started without a token
Tokenless(r) == runs[r].phase # "idle" /\ ~runs[r].token

\* C23: a run started without a token has returned without a request to
\* Gmail and without a write; handleCheckNow has answered
\* { error: 'No auth token' }, and the popup shows the sign-in panel for it
NoTokenNoWork ==
    /\ [](\A r \in Runs :
            Tokenless(r)
               => /\ runs[r].phase = "done"
                  /\ runs[r].status = 0
                  /\ runs[r].emails = <<>>
                  /\ runs[r].writes = {}
                  /\ runs[r].kind = "checkForCodes" => runs[r].response.type = "undefined"
                  /\ runs[r].kind = "handleCheckNow" =>
                        runs[r].response = [NoResponse EXCEPT !.type = "error",
                                                              !.message = "No auth token"])
    /\ [][\A r \in Runs :
            (Tokenless(r) /\ runs'[r].delivered /\ ~runs[r].delivered)
               => panel' = "authRequired"]_vars

\* handleCheckNow has run without a token and the popup has its answer
NoTokenNoWorkWitness ==
    \E r \in Runs :
       /\ Tokenless(r)
       /\ runs[r].kind = "handleCheckNow"
       /\ runs[r].delivered
       /\ panel = "authRequired"

\* the emails with a code that the runs have fetched
FetchedCodes ==
    {e \in inbox : /\ ~ResultOf[e.kind].isNull
                   /\ \E r \in Runs : \E i \in DOMAIN runs[r].emails : runs[r].emails[i] = e}

\* C28: once all runs have completed, the stored currentCode is that of the
\* newest email with a code that any run fetched
KeepsNewest ==
    ((\A r \in Runs : runs[r].phase = "done") /\ FetchedCodes # {})
       => /\ currentCode.stored
          /\ \A e \in FetchedCodes : currentCode.timestamp >= e.timestamp

====
